---- MODULE Spec2Model ----
(***************************************************************************)
(* Global system assembly, static condensation, matrix caching and linear  *)
(* solvers of the spectral/hp element library (MultiRegions::ExpList,      *)
(* GlobalLinSys, LocalRegions::TetExp) and of the coupled linearised       *)
(* Navier-Stokes solver.                                                   *)
(*                                                                         *)
(* Numbers are exact: integers for the assembly, rationals                 *)
(* (pairs <<numerator, denominator>>) for the condensation and the solves. *)
(* Arrays keep the 0-based indices of the source.                          *)
(*                                                                         *)
(* The parts share the module, each with its own specification and the     *)
(* variables of the other parts held at their idle values:                 *)
(*   Spec        GenGlobalMatrix and GenGlobalMatrixFull                   *)
(*   SpecCond    GenGlobalLinSysStaticCond and the condensed element solve *)
(*   SpecCache   GetBlockMatrix called by one caller; SpecCacheMT by       *)
(*               several threads                                           *)
(*   SpecBlock   GlobalLinSys::GetBlock and GetStaticCondBlock             *)
(*   SpecCG      GlobalLinSysIterative and GlobalLinSysPETSc:              *)
(*               v_SolveLinearSystem called by one process                 *)
(*   SpecCGPar   the collective operations of the conjugate gradient       *)
(*               solve run by several processes                            *)
(*   SpecDriver  DriverStandard::v_Execute running CoupledLinearNS         *)
(*   SpecLNS     the boundary system of CoupledLinearNS::SolveLinearNS     *)
(*   SpecRequest the switches over matrix and solver types                 *)
(*   SpecFold    the mean pressure mode folded into the boundary block     *)
(*   SpecVec     NekVector built over a view of an array                   *)
(*   SpecEqu     SolveUnsteadyStokesSystem of several solver objects       *)
(*   SpecCacheRetry  GetBlockMatrix called again after a fatal error       *)
(*   SpecOrd     GlobalLinSysPETSc::CalculateReordering on every process   *)
(*   SpecVwi     the outer iteration of VortexWaveInteractionSolver        *)
(*   SpecPool    ThreadSpecificPool used by several threads                *)
(* Matrix keys carry no variable coefficients.                             *)
(***************************************************************************)
EXTENDS Integers, Sequences, FiniteSets, TLC

(***************************************************************************)
(* Bounds of the model.                                                    *)
(***************************************************************************)
\* number of elements of the expansion list (m_exp->size())
NumExp == 2
\* number of global degrees of freedom (GetNumGlobalCoeffs())
NumGlobal == 3
\* largest number of Dirichlet degrees of freedom (GetNumGlobalDirBndCoeffs())
MaxDir == 1

(***************************************************************************)
(* Generic helpers.                                                        *)
(***************************************************************************)
RECURSIVE SumVals(_)
\* sum of the last component of a set of tuples <<n, i, j, value>>; the
\* leading components keep equal values apart
SumVals(S) ==
    IF S = {} THEN 0
    ELSE LET x == CHOOSE y \in S : TRUE
         IN  x[4] + SumVals(S \ {x})

Mat2(a, b, c, d) ==
    [i \in 0..1 |-> [j \in 0..1 |->
        IF i = 0 THEN (IF j = 0 THEN a ELSE b) ELSE (IF j = 0 THEN c ELSE d)]]

\* rows / columns of a dense matrix held as [0..r-1 -> [0..c-1 -> value]]
GetRows(m) == Cardinality(DOMAIN m)
GetColumns(m) == IF DOMAIN m = {} THEN 0 ELSE Cardinality(DOMAIN m[0])

IsSymmetric(m) ==
    \A i \in DOMAIN m : \A j \in DOMAIN m : m[i][j] = m[j][i]

\* the (i,j) pairs of a rows x cols double loop, in the order the loop
\* visits them (i outer, j inner)
LoopPairs(rows, cols) ==
    [k \in 1..(rows * cols) |-> << (k - 1) \div cols, (k - 1) % cols >>]

(***************************************************************************)
(* The local matrices the elements return from GetLocMatrix: a symmetric   *)
(* Helmholtz-like matrix, a Laplacian stiffness matrix with negative       *)
(* off-diagonal entries, and a non-symmetric (advection-like) matrix.      *)
(***************************************************************************)
LocMatrices ==
    { Mat2(2, 1, 1, 3), Mat2(1, -1, -1, 1), Mat2(1, 2, 3, 4) }

MatrixTypes == {"eBwdTrans", "eIProductWRTBase", "eHelmholtz", "eLinearAdvection"}

VARIABLES
    \* ---- the expansion list and the local to global map -----------------
    exp,        \* exp[n]: the local matrix of element n (GetLocMatrix)
    l2gMap,     \* GetLocalToGlobalMap(k), k over the concatenated local modes
    l2gSign,    \* GetLocalToGlobalSign(k)
    numDir,     \* GetNumGlobalDirBndCoeffs()
    \* ---- one call of GenGlobalMatrix / GenGlobalMatrixFull --------------
    pc,         \* "idle", "fill", "done", "fatal"
    routine,    \* "none", "GenGlobalMatrix", "GenGlobalMatrixFull"
    mtype,      \* mkey.GetMatrixType()
    n,          \* loop index over the elements
    cntdim1,    \* row offset (cnt of GenGlobalMatrixFull)
    cntdim2,    \* column offset
    matStorage, \* "eFULL", "ePOSITIVE_DEFINITE_SYMMETRIC(_BANDED)", "coo"
    Gmat,       \* the matrix being assembled: [coordinate -> value]
    contrib,    \* history: the local pairs <<n,i,j,row,col>> accumulated
    \* ---- the elements' matrices for the static condensation -------------
    stdMat,     \* the standard-region matrix of the key (GetStdMatrix)
    elScale,    \* elScale[m]: Scale() of the local matrix of element m
    gtype,      \* gtype[m]: m_metricinfo->GetGtype(), "eRegular"/"eDeformed"
    bmap,       \* GetBoundaryMap: the local indices of the boundary modes
    imap,       \* GetInteriorMap: the local indices of the interior modes
    staticCondMgr, \* m_staticCondMatrixManager[key] of element m, or empty
    \* ---- one call of GenGlobalLinSysStaticCond and one element solve -----
    cpc,        \* "idle", "loop", "built", "solved", "fatal"
    ctype,      \* mkey.GetMatrixType() of the linear system
    cn,         \* loop index over the elements
    SchurCompl, \* block (m,m) of the four block-diagonal matrices
    BinvD,
    C,
    invD,
    sol,        \* the element solve: element, right-hand side, u_b, u_i
    \* ---- the caches of one expansion list and of its elements ------------
    blockMat,   \* m_blockMat: GlobalMatrixKey -> block matrix, or NullPtr
    genCount,   \* genCount[k]: the calls of GenBlockMatrix with key k
    matrixManager, \* matrixManager[e]: m_matrixManager of element e
    createCount,   \* createCount[e][k]: local matrices created for (e,k)
    returned,   \* history: the matrices the calls returned, in order
    cachePc,    \* "run", "fatal"
    thread,     \* thread[t]: position, key and matrix of a concurrent caller
    \* ---- the retrievals of GlobalLinSys ---------------------------------
    robinBC,    \* GetRobinBCInfo: element -> the coefficients of its chain
    locMatMgr,  \* locMatMgr[m]: m_matrixManager[key] of element m, or empty
    retrieved,  \* history: the values of the matrices the retrievals returned
    bpc,        \* "run", "fatal"
    \* ---- the conjugate gradient solve of GlobalLinSysIterative ----------
    linSys,     \* the class of the solver: "Iterative" or "PETSc"
    sysMat,     \* the matrix v_DoMatrixMultiply applies (nGlobal x nGlobal)
    m_preconditioner, \* the inverse preconditioner M, or NoMatrix
    m_map,      \* the weights of the distributed dot products
    nGlobal,    \* the number of global degrees of freedom
    nDir,       \* the number of Dirichlet degrees of freedom
    pInput,     \* the right-hand side the caller passes
    pOutput,    \* the output array the caller passes
    nektarDebug, \* TRUE in a build that compiles the level 1 assertions
    cgPc,       \* "idle", "loop", "returned", "fatal"
    r_A,        \* the residual
    z_A,        \* the preconditioned residual
    d_A,        \* the search direction (nGlobal entries)
    kIter,      \* k, the iteration counter
    normsq,     \* the squared norm of the last residual computed
    m_x,        \* the solution vector of the PETSc solver
    cgLog,      \* history of the solve: entry values, counts, results
    \* ---- the conjugate gradient solve run by several processes ----------
    procPc,     \* procPc[p]: the position of process p in the solve
    procK,      \* procK[p]: the iteration counter k of process p
    slot,       \* slot[p][c % 2]: what p contributed to its c-th collective
    trace,      \* trace[p]: the collective operations p has entered
    exited,     \* exited[p]: how and in which iteration p left the solve
    \* ---- the standard driver and the coupled linearised solver ----------
    drvStep,    \* the statement of DriverStandard::v_Execute to run next
    drvPc,      \* "run", "advance" (inside AdvanceInTime), "fatal"
    m_equationType, \* the equation type of the session
    m_mat,      \* the coupled matrix system: built or not, and its lambda
    lambda_store, \* the static lambda_store of SolveUnsteadyStokesSystem
    stepsLeft,  \* the implicit solves AdvanceInTime still performs
    initialised, \* v_DoInitialise has returned
    nsLog,      \* history: one record for each call of SolveLinearNS
    \* ---- the boundary system of CoupledLinearNS::SolveLinearNS ----------
    nz_loc,     \* the planes of a mode: 1 or 2
    numBndry,   \* numBndry[e]: NumBndryCoeffs() of element e
    presCoeffs, \* presCoeffs[e]: GetNcoeffs() of the pressure of element e
    loctoglomap,  \* GetLocalToGlobalMap()
    loctoglosign, \* GetLocalToGlobalSign()
    f_bnd,      \* the local boundary coefficients of the velocities
    fh_bnd,     \* the global forcing
    bnd,        \* the global solution
    lnsPc,      \* "assemble", "solve", "unpack", "done"
    lnsElmt,    \* i, the element the current loop handles next
    lnsCnt,     \* cnt
    lnsOffset,  \* offset
    \* ---- requests for matrices and systems of unsupported kinds ---------
    reqLog,     \* history: one record for each request and its outcome
    reqPc,      \* "run", "fatal"
    \* ---- the mean pressure mode of CoupledLinearNS::SetUpCoupledMatrix --
    foldIn,     \* the sizes of the element and its first-level matrices
    Ah,         \* the final boundary block (with the mean pressure modes)
    Bh,         \* the final boundary/interior-pressure block
    Ch,         \* the final interior-pressure/boundary block
    Dh,         \* the final interior-pressure block
    foldPc,     \* "start", "dh", "border", "corner", "copied"
    \* ---- a NekVector built over a view of an array -----------------------
    buf,        \* the storage the array and its views share
    arrView,    \* offset = out + k: the start of the view
    nekVec,     \* the vector: its flag, size, start and own data
    vecLog,     \* history: the writes, in order
    \* ---- several CoupledLinearNS objects of one process ------------------
    equ,        \* equ[o]: the coupled matrix of solver object o, once set up
    equLog,     \* history: one record for each unsteady implicit solve
    \* ---- GlobalLinSysPETSc::CalculateReordering on every process --------
    glo2uniMap, \* glo2uniMap[p]: the universal id of each global DOF of p
    nDirDofs,   \* nDirDofs[p]: GetNumGlobalDirBndCoeffs() of p
    ordPc,      \* ordPc[p]: "start", "inCounts", "inIds", "done"
    localCounts, \* localCounts[p]: the array of p, reduced once p has left
    allUniIds,  \* allUniIds[p]: the array of p, reduced and sorted
    m_reorderedMap, \* m_reorderedMap[p]
    ordSolves, \* ordSolves[p]: the calls of v_SolveLinearSystem on p
    \* ---- VortexWaveInteractionSolver, fixed wave forcing ---------------
    vwiPc, \* position in the fixed-wave-forcing branch of main
    vwiI, \* the inner loop counter i
    nouter_iter, \* the outer-iteration count
    exit_iteration, \* the flag of the while loop
    vwiIn, \* the inputs: GetIterStart, GetIterEnd, GetMaxOuterIterations
    vwiReported, \* the failure to converge was written to cerr
    \* ---- ThreadSpecificPool ---------------------------------------------
    poolCtor, \* the thread that constructed the pool object, 0 before construction
    m_pool, \* m_pool[t]: the value of the thread specific pointer in thread t
    poolHeld, \* the blocks handed out and not yet returned
    poolRes, \* poolRes[t]: the outcome of the last call of thread t
    poolCalls, \* the calls made so far
    poolPc \* "run", or "crashed" after a fault

asmVars == << exp, l2gMap, l2gSign, numDir, pc, routine, mtype, n, cntdim1,
              cntdim2, matStorage, Gmat, contrib >>

condVars == << stdMat, elScale, gtype, bmap, imap, staticCondMgr, cpc, ctype,
               cn, SchurCompl, BinvD, C, invD, sol >>

cacheVars == << blockMat, genCount, matrixManager, createCount, returned,
                cachePc, thread >>

blockVars == << robinBC, locMatMgr, retrieved, bpc >>

cgVars == << linSys, sysMat, m_preconditioner, m_map, nGlobal, nDir, pInput, pOutput,
             nektarDebug, cgPc, r_A, z_A, d_A, kIter, normsq, m_x, cgLog >>

\* the variables of the linear solvers and of the coupled solver
parVars == << procPc, procK, slot, trace, exited >>

nsVars == << drvStep, drvPc, m_equationType, m_mat, lambda_store, stepsLeft,
             initialised, nsLog >>

lnsVars == << nz_loc, numBndry, presCoeffs, loctoglomap, loctoglosign, f_bnd,
              fh_bnd, bnd, lnsPc, lnsElmt, lnsCnt, lnsOffset >>

solverVars == << cgVars, parVars, nsVars, lnsVars >>

reqVars == << reqLog, reqPc >>

\* the variables of the further parts of the model
foldVars == << foldIn, Ah, Bh, Ch, Dh, foldPc >>

vecVars == << buf, arrView, nekVec, vecLog >>

equVars == << equ, equLog >>

ordVars == << glo2uniMap, nDirDofs, ordPc, localCounts, allUniIds, m_reorderedMap,
             ordSolves >>

vwiVars == << vwiPc, vwiI, nouter_iter, exit_iteration, vwiIn, vwiReported >>

poolVars == << poolCtor, m_pool, poolHeld, poolRes, poolCalls, poolPc >>

auxVars == << reqVars, foldVars, vecVars, equVars, ordVars, vwiVars, poolVars >>

vars == << asmVars, condVars, cacheVars, blockVars, solverVars, auxVars >>

\* the variables other than those of one part of the model
nonAsmVars == << condVars, cacheVars, blockVars, solverVars, auxVars >>

nonCondVars == << asmVars, cacheVars, blockVars, solverVars, auxVars >>

nonCacheVars == << asmVars, condVars, blockVars, solverVars, auxVars >>

nonBlockVars == << asmVars, condVars, cacheVars, solverVars, auxVars >>

nonSolverVars == << asmVars, condVars, cacheVars, blockVars, auxVars >>

nonAuxVars == << asmVars, condVars, cacheVars, blockVars, solverVars >>

nonReqVars == << nonAuxVars, foldVars, vecVars, equVars, ordVars, vwiVars, poolVars >>

nonFoldVars == << nonAuxVars, reqVars, vecVars, equVars, ordVars, vwiVars, poolVars >>

nonVecVars == << nonAuxVars, reqVars, foldVars, equVars, ordVars, vwiVars, poolVars >>

nonOrdVars == << nonAuxVars, reqVars, foldVars, vecVars, equVars, vwiVars, poolVars >>

nonVwiVars == << nonAuxVars, reqVars, foldVars, vecVars, equVars, ordVars, poolVars >>

nonPoolVars == << nonAuxVars, reqVars, foldVars, vecVars, equVars, ordVars, vwiVars >>

\* the solver objects share the static lambda_store with the driver part
nonEquVars == << asmVars, condVars, cacheVars, blockVars, cgVars, parVars, lnsVars,
                 reqVars, foldVars, vecVars, ordVars, vwiVars, poolVars, drvStep, drvPc, m_equationType, m_mat,
                 stepsLeft, initialised, nsLog >>

\* the values of the variables of a part of the model that is not exercised
CondIdle ==
    /\ stdMat = "none" /\ elScale = "none" /\ gtype = "none" /\ bmap = << >>
    /\ imap = << >> /\ staticCondMgr = "none" /\ cpc = "off" /\ ctype = "none"
    /\ cn = 0 /\ SchurCompl = "none" /\ BinvD = "none" /\ C = "none"
    /\ invD = "none" /\ sol = "none"

BlockIdle ==
    /\ robinBC = << >> /\ locMatMgr = << >> /\ retrieved = << >> /\ bpc = "off"

CacheIdle ==
    /\ blockMat = << >> /\ genCount = << >> /\ matrixManager = << >>
    /\ createCount = << >> /\ returned = << >> /\ cachePc = "off"
    /\ thread = << >>

ParIdle ==
    /\ procPc = << >> /\ procK = << >> /\ slot = << >> /\ trace = << >>
    /\ exited = << >>

\* the solve of one process, but for the build
CgOff ==
    /\ linSys = "none"
    /\ sysMat = << >> /\ m_preconditioner = << >> /\ m_map = << >>
    /\ nGlobal = 0 /\ nDir = 0 /\ pInput = << >> /\ pOutput = << >>
    /\ cgPc = "off" /\ r_A = << >> /\ z_A = << >>
    /\ d_A = << >> /\ kIter = 0 /\ normsq = << >> /\ m_x = << >> /\ cgLog = << >>

CgIdle == CgOff /\ nektarDebug = FALSE

\* the driver, but for the static lambda_store
NsOff ==
    /\ drvStep = 0 /\ drvPc = "off" /\ m_equationType = "none" /\ m_mat = << >>
    /\ stepsLeft = 0 /\ initialised = FALSE /\ nsLog = << >>

NsIdle == NsOff /\ lambda_store = << >>

LnsIdle ==
    /\ nz_loc = 0 /\ numBndry = << >> /\ presCoeffs = << >>
    /\ loctoglomap = << >> /\ loctoglosign = << >> /\ f_bnd = << >>
    /\ fh_bnd = << >> /\ bnd = << >> /\ lnsPc = "off" /\ lnsElmt = 0
    /\ lnsCnt = 0 /\ lnsOffset = 0

ReqIdle == reqLog = << >> /\ reqPc = "off"

FoldIdle ==
    /\ foldIn = << >> /\ Ah = << >> /\ Bh = << >> /\ Ch = << >> /\ Dh = << >>
    /\ foldPc = "off"

VecIdle ==
    /\ buf = << >> /\ arrView = << >> /\ nekVec = << >> /\ vecLog = << >>

EquIdle == equ = << >> /\ equLog = << >>

OrdIdle ==
    /\ glo2uniMap = << >> /\ nDirDofs = << >> /\ ordPc = << >>
    /\ localCounts = << >> /\ allUniIds = << >> /\ m_reorderedMap = << >>
    /\ ordSolves = << >>

VwiIdle ==
    /\ vwiPc = << >>
    /\ vwiI = << >>
    /\ nouter_iter = << >>
    /\ exit_iteration = << >>
    /\ vwiIn = << >>
    /\ vwiReported = << >>

PoolIdle ==
    /\ poolCtor = << >>
    /\ m_pool = << >>
    /\ poolHeld = << >>
    /\ poolRes = << >>
    /\ poolCalls = << >>
    /\ poolPc = << >>

AuxIdle == ReqIdle /\ FoldIdle /\ VecIdle /\ EquIdle /\ OrdIdle /\ VwiIdle /\ PoolIdle

SolverIdle == CgIdle /\ ParIdle /\ NsIdle /\ LnsIdle /\ AuxIdle

AsmIdle ==
    /\ exp = << >> /\ l2gMap = << >> /\ l2gSign = << >> /\ numDir = 0
    /\ pc = "off" /\ routine = "none" /\ mtype = "none" /\ n = 0 /\ cntdim1 = 0
    /\ cntdim2 = 0 /\ matStorage = "none" /\ Gmat = << >> /\ contrib = {}

(***************************************************************************)
(* LocalToGlobalC0ContMap: the concatenated local modes of the elements.   *)
(***************************************************************************)
Ncoeffs(e, n0) == GetColumns(e[n0])

RECURSIVE CoeffOffset(_, _)
\* offset of element n0 in the concatenated local arrays (the running cnt)
CoeffOffset(e, n0) ==
    IF n0 = 0 THEN 0 ELSE CoeffOffset(e, n0 - 1) + Ncoeffs(e, n0 - 1)

NumLocal(e) == CoeffOffset(e, Cardinality(DOMAIN e))

\* m_npoints: here every element has as many quadrature points as modes
NumPoints(e) == NumLocal(e)

(***************************************************************************)
(* ExpList::GenGlobalMatrix: sparse coordinate assembly.                   *)
(***************************************************************************)
GlobalMatrixTypes == {"eBwdTrans", "eIProductWRTBase", "eMass", "eHelmholtz", "eLaplacian"}

AssembleFirstDim(ty) == ty \in {"eIProductWRTBase", "eMass", "eHelmholtz", "eLaplacian"}

AssembleSecondDim(ty) == ty \in {"eBwdTrans", "eMass", "eHelmholtz", "eLaplacian"}

GlobRows(ty, e) == IF ty = "eBwdTrans" THEN NumPoints(e) ELSE NumGlobal

GlobCols(ty, e) == IF ty = "eIProductWRTBase" THEN NumPoints(e) ELSE NumGlobal

Gid1(ty, map, c1, i) == IF AssembleFirstDim(ty) THEN map[c1 + i] ELSE c1 + i

Sign1(ty, sgn, c1, i) == IF AssembleFirstDim(ty) THEN sgn[c1 + i] ELSE 1

Gid2(ty, map, c2, j) == IF AssembleSecondDim(ty) THEN map[c2 + j] ELSE c2 + j

Sign2(ty, sgn, c2, j) == IF AssembleSecondDim(ty) THEN sgn[c2 + j] ELSE 1

\* the mutant of SparseFill: the entry is assigned, not accumulated
SparseFillOverwrite(coo, coord, v) ==
    IF coord \in DOMAIN coo THEN [coo EXCEPT ![coord] = v]
    ELSE coo @@ (coord :> v)

\* "sparse matrix fill": spcoomat[coord] = v on the first visit, += v later
SparseFill(coo, coord, v) ==
    IF coord \in DOMAIN coo THEN [coo EXCEPT ![coord] = @ + v]
    ELSE coo @@ (coord :> v)

RECURSIVE GenGlobalMatrixElmt(_, _, _, _, _, _, _, _)
\* the i,j double loop of GenGlobalMatrix over the local matrix loc of one
\* element, from pair k of the loop on
GenGlobalMatrixElmt(coo, loc, ty, map, sgn, c1, c2, k) ==
    LET pairs == LoopPairs(GetRows(loc), GetColumns(loc))
    IN  IF k > Len(pairs) THEN coo
        ELSE LET i == pairs[k][1]
                 j == pairs[k][2]
                 coord == << Gid1(ty, map, c1, i), Gid2(ty, map, c2, j) >>
                 v == Sign1(ty, sgn, c1, i) * Sign2(ty, sgn, c2, j) * loc[i][j]
             IN  GenGlobalMatrixElmt(SparseFill(coo, coord, v), loc, ty,
                                     map, sgn, c1, c2, k + 1)

(***************************************************************************)
(* ExpList::GenGlobalMatrixFull: dense assembly over the free DOFs.        *)
(***************************************************************************)
\* GetFullSystemBandWidth(): the largest distance of two free global ids
\* of one element
FullSystemBandWidth(e, map, nd) ==
    LET dist == UNION { { map[CoeffOffset(e, m) + i] - map[CoeffOffset(e, m) + j] :
                            i \in { a \in 0..(Ncoeffs(e, m) - 1) :
                                      map[CoeffOffset(e, m) + a] >= nd },
                            j \in { b \in 0..(Ncoeffs(e, m) - 1) :
                                      map[CoeffOffset(e, m) + b] >= nd } } :
                        m \in DOMAIN e }
    IN  IF dist = {} THEN 0 ELSE CHOOSE d \in dist : \A x \in dist : x <= d

\* the switch on mkey.GetMatrixType() that chooses the storage
StorageFor(ty, bwidth, rows) ==
    IF ty \in {"eHelmholtz", "eLaplacian"}
    THEN IF 2 * (bwidth + 1) < rows
         THEN "ePOSITIVE_DEFINITE_SYMMETRIC_BANDED"
         ELSE "ePOSITIVE_DEFINITE_SYMMETRIC"
    ELSE "eFULL"

\* NekMatrix: the coordinates a storage keeps; symmetric storages keep the
\* upper triangle and read/write (r,c) with r > c at (c,r)
StoredCoords(st, rows, cols) ==
    IF st = "eFULL"
    THEN (0..(rows - 1)) \X (0..(cols - 1))
    ELSE { rc \in (0..(rows - 1)) \X (0..(cols - 1)) : rc[1] <= rc[2] }

Slot(st, r, c) == IF st = "eFULL" \/ r <= c THEN << r, c >> ELSE << c, r >>

GetValue(G, st, r, c) == G[Slot(st, r, c)]

SetValue(G, st, r, c, v) == [G EXCEPT ![Slot(st, r, c)] = v]

\* mutant of FullAccepts: both triangles are accumulated in every storage
FullAcceptsBothTriangles(st, gid1, gid2) ==
    /\ gid1 >= 0
    /\ gid2 >= 0

\* the guards around the accumulation: both ids free and, in symmetric
\* storage, only the upper triangular part
FullAccepts(st, gid1, gid2) ==
    /\ gid1 >= 0
    /\ gid2 >= 0
    /\ (st = "eFULL") \/ (gid2 >= gid1)

\* mutant of FullAccumulate: the value replaces the entry
FullAccumulateOverwrite(G, st, gid1, gid2, v) ==
    SetValue(G, st, gid1, gid2, v)

\* value = Gmat->GetValue(gid1,gid2) + ...; Gmat->SetValue(gid1,gid2,value)
FullAccumulate(G, st, gid1, gid2, v) ==
    SetValue(G, st, gid1, gid2, GetValue(G, st, gid1, gid2) + v)

\* mutant of FullValue: the sign of the column mode is dropped
FullValueNoColumnSign(loc, sgn, cnt, i, j) == sgn[cnt + i] * loc[i][j]

\* sign1 * sign2 * loc_mat(i,j)
FullValue(loc, sgn, cnt, i, j) == sgn[cnt + i] * sgn[cnt + j] * loc[i][j]

RECURSIVE GenGlobalMatrixFullElmt(_, _, _, _, _, _, _, _, _)
\* the i,j double loop of GenGlobalMatrixFull over one element; acc holds
\* the matrix G and the history log of the accumulated pairs
GenGlobalMatrixFullElmt(acc, loc, st, map, sgn, nd, cnt, m, k) ==
    LET lda   == GetColumns(loc)
        pairs == LoopPairs(lda, lda)
    IN  IF k > Len(pairs) THEN acc
        ELSE LET i == pairs[k][1]
                 j == pairs[k][2]
                 gid1 == map[cnt + i] - nd
                 gid2 == map[cnt + j] - nd
                 v == FullValue(loc, sgn, cnt, i, j)
                 next ==
                    IF FullAccepts(st, gid1, gid2)
                    THEN [G   |-> FullAccumulate(acc.G, st, gid1, gid2, v),
                          log |-> acc.log \cup {<< m, i, j, gid1, gid2 >>}]
                    ELSE acc
             IN  GenGlobalMatrixFullElmt(next, loc, st, map, sgn, nd, cnt, m, k + 1)

(***************************************************************************)
(* State machine of one assembly call, for a key without variable         *)
(* coefficients (GetNvariableCoefficients() = 0).                          *)
(***************************************************************************)
AsmInit ==
    /\ exp \in [0..(NumExp - 1) -> LocMatrices]
    /\ l2gMap \in [0..(2 * NumExp - 1) -> 0..(NumGlobal - 1)]
    /\ l2gSign \in [0..(2 * NumExp - 1) -> {1, -1}]
    /\ numDir \in 0..MaxDir
    /\ pc = "idle"
    /\ routine = "none"
    /\ mtype = "none"
    /\ n = 0
    /\ cntdim1 = 0
    /\ cntdim2 = 0
    /\ matStorage = "none"
    /\ Gmat = << >>
    /\ contrib = {}

\* GenGlobalMatrix is called: the switch on the matrix type; an empty
\* coordinate map
CallGenGlobalMatrix ==
    /\ pc = "idle"
    /\ \E ty \in MatrixTypes :
         /\ mtype' = ty
         /\ pc' = IF ty \in GlobalMatrixTypes THEN "fill" ELSE "fatal"
    /\ routine' = "GenGlobalMatrix"
    /\ matStorage' = "coo"
    /\ Gmat' = << >>
    /\ n' = 0 /\ cntdim1' = 0 /\ cntdim2' = 0
    /\ UNCHANGED nonAsmVars
    /\ UNCHANGED << exp, l2gMap, l2gSign, numDir, contrib >>

\* one pass of the loop over the elements of GenGlobalMatrix
FillGenGlobalMatrix ==
    /\ pc = "fill" /\ routine = "GenGlobalMatrix"
    /\ n < Cardinality(DOMAIN exp)
    /\ Gmat' = GenGlobalMatrixElmt(Gmat, exp[n], mtype, l2gMap, l2gSign,
                                   cntdim1, cntdim2, 1)
    /\ cntdim1' = cntdim1 + GetRows(exp[n])
    /\ cntdim2' = cntdim2 + GetColumns(exp[n])
    /\ n' = n + 1
    /\ UNCHANGED nonAsmVars
    /\ UNCHANGED << exp, l2gMap, l2gSign, numDir, pc, routine, mtype,
                    matStorage, contrib >>

\* mutant of NumDirBCs: the Dirichlet degrees of freedom are not excluded
NumDirBCsIgnored == numDir * 0

\* int NumDirBCs = locToGloMap->GetNumGlobalDirBndCoeffs()
NumDirBCs == numDir

\* GenGlobalMatrixFull is called: the storage is chosen and the matrix of
\* (totDofs - NumDirBCs) rows and columns is allocated with zeros
CallGenGlobalMatrixFull ==
    /\ pc = "idle"
    /\ \E ty \in {"eHelmholtz", "eLinearAdvection"} :
         LET rows == NumGlobal - NumDirBCs
             st == StorageFor(ty, FullSystemBandWidth(exp, l2gMap, NumDirBCs), rows)
         IN  /\ mtype' = ty
             /\ matStorage' = st
             /\ Gmat' = [rc \in StoredCoords(st, rows, rows) |-> 0]
    /\ routine' = "GenGlobalMatrixFull"
    /\ pc' = "fill"
    /\ n' = 0 /\ cntdim1' = 0 /\ cntdim2' = 0
    /\ UNCHANGED nonAsmVars
    /\ UNCHANGED << exp, l2gMap, l2gSign, numDir, contrib >>

\* one pass of the loop over the elements of GenGlobalMatrixFull
FillGenGlobalMatrixFull ==
    /\ pc = "fill" /\ routine = "GenGlobalMatrixFull"
    /\ n < Cardinality(DOMAIN exp)
    /\ LET acc == GenGlobalMatrixFullElmt([G |-> Gmat, log |-> contrib], exp[n],
                        matStorage, l2gMap, l2gSign, NumDirBCs, cntdim1, n, 1)
       IN  /\ Gmat' = acc.G
           /\ contrib' = acc.log
    /\ cntdim1' = cntdim1 + Ncoeffs(exp, n)
    /\ n' = n + 1
    /\ UNCHANGED nonAsmVars
    /\ UNCHANGED << exp, l2gMap, l2gSign, numDir, pc, routine, mtype,
                    matStorage, cntdim2 >>

\* the loop is over: the matrix is returned
ReturnGlobalMatrix ==
    /\ pc = "fill"
    /\ n = Cardinality(DOMAIN exp)
    /\ pc' = "done"
    /\ UNCHANGED nonAsmVars
    /\ UNCHANGED << exp, l2gMap, l2gSign, numDir, routine, mtype, n,
                    cntdim1, cntdim2, matStorage, Gmat, contrib >>

AsmNext ==
    \/ CallGenGlobalMatrix
    \/ FillGenGlobalMatrix
    \/ CallGenGlobalMatrixFull
    \/ FillGenGlobalMatrixFull
    \/ ReturnGlobalMatrix

Init == AsmInit /\ CondIdle /\ CacheIdle /\ BlockIdle /\ SolverIdle

Next == AsmNext

Spec == Init /\ [][Next]_vars

(***************************************************************************)
(* Reference quantities of the assembly claims, written as sums over the   *)
(* sets of local pairs, independently of the loops above.                  *)
(***************************************************************************)
LocalPairs(upto) ==
    { t \in (0..(upto - 1)) \X (0..1) \X (0..1) :
        /\ t[2] < GetRows(exp[t[1]])
        /\ t[3] < GetColumns(exp[t[1]]) }

\* the signed local entries that GenGlobalMatrix maps to (g1,g2), over the
\* elements 0..upto-1
CooTerms(g1, g2, upto) ==
    { << t[1], t[2], t[3],
         Sign1(mtype, l2gSign, CoeffOffset(exp, t[1]), t[2])
           * Sign2(mtype, l2gSign, CoeffOffset(exp, t[1]), t[3])
           * exp[t[1]][t[2]][t[3]] >> :
        t \in { u \in LocalPairs(upto) :
                  /\ Gid1(mtype, l2gMap, CoeffOffset(exp, u[1]), u[2]) = g1
                  /\ Gid2(mtype, l2gMap, CoeffOffset(exp, u[1]), u[3]) = g2 } }

\* the signed local entries whose modes map to the free DOFs (r,c)
FreeTerms(r, c, upto) ==
    { << t[1], t[2], t[3],
         l2gSign[CoeffOffset(exp, t[1]) + t[2]]
           * l2gSign[CoeffOffset(exp, t[1]) + t[3]]
           * exp[t[1]][t[2]][t[3]] >> :
        t \in { u \in LocalPairs(upto) :
                  /\ l2gMap[CoeffOffset(exp, u[1]) + u[2]] = r + numDir
                  /\ l2gMap[CoeffOffset(exp, u[1]) + u[3]] = c + numDir } }

FreeDofs == 0..(NumGlobal - numDir - 1)

Assembling == pc \in {"fill", "done"}

(***************************************************************************)
(* C1: after the elements 0..n-1 have been processed (all of them once the *)
(* call is done) every entry of the global matrix is the sum, over those   *)
(* elements and their local pairs (i,j) mapped to the entry, of            *)
(* sign*sign*M_e[i][j]; an entry no pair maps to is absent from the        *)
(* coordinate map (GenGlobalMatrix) or zero (GenGlobalMatrixFull).  In     *)
(* symmetric storage the entries are the stored ones, row <= column.       *)
(***************************************************************************)
C1_ScatterAddIsSum ==
    Assembling =>
      /\ routine = "GenGlobalMatrix" =>
            /\ DOMAIN Gmat \subseteq
                 (0..(GlobRows(mtype, exp) - 1)) \X (0..(GlobCols(mtype, exp) - 1))
            /\ \A g1 \in 0..(GlobRows(mtype, exp) - 1) :
               \A g2 \in 0..(GlobCols(mtype, exp) - 1) :
                 IF << g1, g2 >> \in DOMAIN Gmat
                 THEN Gmat[<< g1, g2 >>] = SumVals(CooTerms(g1, g2, n))
                 ELSE CooTerms(g1, g2, n) = {}
      /\ routine = "GenGlobalMatrixFull" =>
            \A rc \in DOMAIN Gmat :
                Gmat[rc] = SumVals(FreeTerms(rc[1], rc[2], n))

\* an entry of the finished matrix holds contributions of two elements
C1_Witness ==
    /\ pc = "done"
    /\ routine = "GenGlobalMatrixFull"
    /\ \E rc \in DOMAIN Gmat :
         \E t1, t2 \in FreeTerms(rc[1], rc[2], n) :
            t1[1] # t2[1] /\ t1[4] # 0 /\ t2[4] # 0

(***************************************************************************)
(* C2: the matrix of GenGlobalMatrixFull has NumGlobal - numDir rows and   *)
(* columns; every accumulated local pair has both modes mapped to global   *)
(* ids >= numDir and lands at (map - numDir, map - numDir); every pair of  *)
(* a processed element with both modes free is accumulated (in symmetric   *)
(* storage: when its column is not below its row).                         *)
(***************************************************************************)
C2_DirichletExcluded ==
    (Assembling /\ routine = "GenGlobalMatrixFull") =>
      /\ DOMAIN Gmat \subseteq FreeDofs \X FreeDofs
      /\ \A r \in FreeDofs : << r, r >> \in DOMAIN Gmat
      /\ \A c \in contrib :
           LET k1 == CoeffOffset(exp, c[1]) + c[2]
               k2 == CoeffOffset(exp, c[1]) + c[3]
           IN  /\ l2gMap[k1] >= numDir
               /\ l2gMap[k2] >= numDir
               /\ c[4] = l2gMap[k1] - numDir
               /\ c[5] = l2gMap[k2] - numDir
      /\ \A t \in LocalPairs(n) :
           LET g1 == l2gMap[CoeffOffset(exp, t[1]) + t[2]]
               g2 == l2gMap[CoeffOffset(exp, t[1]) + t[3]]
           IN  (/\ g1 >= numDir
                /\ g2 >= numDir
                /\ (matStorage = "eFULL" \/ g2 >= g1))
               => << t[1], t[2], t[3], g1 - numDir, g2 - numDir >> \in contrib

\* an element with a Dirichlet mode and a free mode has been assembled:
\* some of its pairs were skipped, some accumulated
C2_Witness ==
    /\ pc = "done"
    /\ routine = "GenGlobalMatrixFull"
    /\ numDir > 0
    /\ \E m \in DOMAIN exp :
         /\ \E i \in 0..1 : l2gMap[CoeffOffset(exp, m) + i] < numDir
         /\ \E c \in contrib : c[1] = m

(***************************************************************************)
(* C3: for a Helmholtz/Laplacian operator whose local matrices are all     *)
(* symmetric, the assembled matrix is symmetric over the free DOFs, for    *)
(* every map and sign array: the value read at (i,j) equals the value read *)
(* at (j,i), and both are the sum of the signed local entries mapped to    *)
(* (i,j), also where only the transposed entry was accumulated.            *)
(***************************************************************************)
C3_GlobalSymmetric ==
    (/\ pc = "done"
     /\ mtype \in {"eHelmholtz", "eLaplacian"}
     /\ \A m \in DOMAIN exp : IsSymmetric(exp[m]))
    =>
      /\ routine = "GenGlobalMatrixFull" =>
            \A i \in FreeDofs : \A j \in FreeDofs :
               /\ GetValue(Gmat, matStorage, i, j) = GetValue(Gmat, matStorage, j, i)
               /\ GetValue(Gmat, matStorage, i, j) = SumVals(FreeTerms(i, j, n))
      /\ routine = "GenGlobalMatrix" =>
            \A g1 \in 0..(NumGlobal - 1) : \A g2 \in 0..(NumGlobal - 1) :
               /\ (<< g1, g2 >> \in DOMAIN Gmat) = (<< g2, g1 >> \in DOMAIN Gmat)
               /\ << g1, g2 >> \in DOMAIN Gmat => Gmat[<< g1, g2 >>] = Gmat[<< g2, g1 >>]

\* a symmetric operator assembled with a flipped sign into an off-diagonal
\* entry of the free system
C3_Witness ==
    /\ pc = "done"
    /\ routine = "GenGlobalMatrixFull"
    /\ mtype = "eHelmholtz"
    /\ \A m \in DOMAIN exp : IsSymmetric(exp[m])
    /\ \E k \in DOMAIN l2gSign : l2gSign[k] = -1
    /\ \E i \in FreeDofs : \E j \in FreeDofs :
         i > j /\ GetValue(Gmat, matStorage, i, j) # 0

(***************************************************************************)
(* C4: assembling the elements in any permuted order (each element with    *)
(* its own matrix, map entries and signs) gives the matrix that the        *)
(* original order gave.                                                    *)
(***************************************************************************)
\* the expansion list and the concatenated arrays with element p[m] in place m
PermExp(p) == [m \in DOMAIN exp |-> exp[p[m]]]

\* the place, in the original concatenated arrays, of local mode k of the
\* permuted list
OrigIndex(p, k) ==
    LET pe == PermExp(p)
        m  == CHOOSE x \in DOMAIN pe :
                 CoeffOffset(pe, x) <= k /\ k < CoeffOffset(pe, x + 1)
    IN  CoeffOffset(exp, p[m]) + (k - CoeffOffset(pe, m))

PermArray(arr, p) == [k \in DOMAIN arr |-> arr[OrigIndex(p, k)]]

\* a coordinate of the matrix assembled from the permuted list, named in
\* the numbering of the original list: a global id is itself, a dimension
\* that is not assembled (eBwdTrans rows, eIProductWRTBase columns) is
\* numbered by the local points of the elements and moves with its element
OrigCoord(p, rc) ==
    << IF AssembleFirstDim(mtype) THEN rc[1] ELSE OrigIndex(p, rc[1]),
       IF AssembleSecondDim(mtype) THEN rc[2] ELSE OrigIndex(p, rc[2]) >>

RECURSIVE AssembleCoo(_, _, _, _, _)
AssembleCoo(coo, e, map, sgn, m) ==
    IF m = Cardinality(DOMAIN e) THEN coo
    ELSE AssembleCoo(GenGlobalMatrixElmt(coo, e[m], mtype, map, sgn,
                                         CoeffOffset(e, m), CoeffOffset(e, m), 1),
                     e, map, sgn, m + 1)

RECURSIVE AssembleFull(_, _, _, _, _)
AssembleFull(acc, e, map, sgn, m) ==
    IF m = Cardinality(DOMAIN e) THEN acc
    ELSE AssembleFull(GenGlobalMatrixFullElmt(acc, e[m], matStorage, map, sgn,
                                              NumDirBCs, CoeffOffset(e, m), m, 1),
                      e, map, sgn, m + 1)

C4_OrderIndependent ==
    pc = "done" =>
      \A p \in Permutations(DOMAIN exp) :
        /\ routine = "GenGlobalMatrix" =>
              LET coo == AssembleCoo(<< >>, PermExp(p), PermArray(l2gMap, p),
                                     PermArray(l2gSign, p), 0)
              IN  /\ { OrigCoord(p, rc) : rc \in DOMAIN coo } = DOMAIN Gmat
                  /\ \A rc \in DOMAIN coo : coo[rc] = Gmat[OrigCoord(p, rc)]
        /\ routine = "GenGlobalMatrixFull" =>
              Gmat = AssembleFull([G |-> [rc \in DOMAIN Gmat |-> 0], log |-> {}],
                                  PermExp(p), PermArray(l2gMap, p),
                                  PermArray(l2gSign, p), 0).G

\* two different elements have both contributed to one entry
C4_Witness ==
    /\ pc = "done"
    /\ routine = "GenGlobalMatrix"
    /\ exp[0] # exp[1]
    /\ \E g1, g2 \in 0..(NumGlobal - 1) :
         \E t1, t2 \in CooTerms(g1, g2, n) : t1[1] # t2[1] /\ t1[4] # t2[4]

(***************************************************************************)
(* Exact arithmetic of the static condensation: a number is a fraction     *)
(* <<numerator, denominator>> in lowest terms with a positive denominator. *)
(***************************************************************************)
Abs(x) == IF x < 0 THEN -x ELSE x

RECURSIVE Gcd(_, _)
Gcd(a, b) == IF b = 0 THEN a ELSE Gcd(b, a % b)

Frac(a, b) ==
    LET g == Gcd(Abs(a), Abs(b))
        s == IF b < 0 THEN -1 ELSE 1
    IN  << (s * a) \div g, (s * b) \div g >>

RInt(k) == << k, 1 >>

RAdd(x, y) == Frac(x[1] * y[2] + y[1] * x[2], x[2] * y[2])

RSub(x, y) == Frac(x[1] * y[2] - y[1] * x[2], x[2] * y[2])

RMul(x, y) == Frac(x[1] * y[1], x[2] * y[2])

\* 1/x, x not zero
RInv(x) == Frac(x[2], x[1])

(***************************************************************************)
(* Dense matrices (NekMatrix<double>): rows r, columns c, values v over    *)
(* (0..r-1) x (0..c-1); a matrix may have no rows or no columns.           *)
(***************************************************************************)
Idx(k) == 0..(k - 1)

Coords(rows, cols) == Idx(rows) \X Idx(cols)

RECURSIVE DotFrom(_, _, _, _, _)
\* sum over k..X.c-1 of X(i,k)*Y(k,j)
DotFrom(X, Y, i, j, k) ==
    IF k >= X.c THEN RInt(0)
    ELSE RAdd(RMul(X.v[<< i, k >>], Y.v[<< k, j >>]), DotFrom(X, Y, i, j, k + 1))

\* operator* of two matrices
MMul(X, Y) ==
    [r |-> X.r, c |-> Y.c,
     v |-> [ij \in Coords(X.r, Y.c) |-> DotFrom(X, Y, ij[1], ij[2], 0)]]

\* operator- of two matrices
MSub(X, Y) ==
    [r |-> X.r, c |-> X.c,
     v |-> [ij \in Coords(X.r, X.c) |-> RSub(X.v[ij], Y.v[ij])]]

\* Blas::Dscal / the scale of a scaled matrix applied to every entry
MScale(a, X) ==
    [r |-> X.r, c |-> X.c, v |-> [ij \in Coords(X.r, X.c) |-> RMul(a, X.v[ij])]]

MIdentity(k) ==
    [r |-> k, c |-> k,
     v |-> [ij \in Coords(k, k) |-> IF ij[1] = ij[2] THEN RInt(1) ELSE RInt(0)]]

Minor(X, i0, j0) ==
    [r |-> X.r - 1, c |-> X.c - 1,
     v |-> [ij \in Coords(X.r - 1, X.c - 1) |->
              X.v[<< IF ij[1] < i0 THEN ij[1] ELSE ij[1] + 1,
                     IF ij[2] < j0 THEN ij[2] ELSE ij[2] + 1 >>]]]

RECURSIVE Det(_)
RECURSIVE DetFrom(_, _)
\* expansion of the determinant along row 0, from column j on
DetFrom(X, j) ==
    IF j >= X.c THEN RInt(0)
    ELSE LET term == RMul(X.v[<< 0, j >>], Det(Minor(X, 0, j)))
         IN  RAdd(IF j % 2 = 0 THEN term ELSE RSub(RInt(0), term), DetFrom(X, j + 1))

Det(X) == IF X.r = 0 THEN RInt(1) ELSE DetFrom(X, 0)

IsSingular(X) == Det(X) = RInt(0)

\* NekMatrix::Invert() of a non-singular square matrix
MInvert(X) ==
    [r |-> X.r, c |-> X.c,
     v |-> [ij \in Coords(X.r, X.c) |->
              LET cof == Det(Minor(X, ij[2], ij[1]))
              IN  RMul(IF (ij[1] + ij[2]) % 2 = 0 THEN cof ELSE RSub(RInt(0), cof),
                       RInv(Det(X)))]]

\* a scaled matrix (DNekScalMat): the scale and the matrix it points to;
\* operator()(i,j) is scale * matrix(i,j)
ScalMat(a, X) == [scale |-> a, mat |-> X]

ScalValue(sm, i, j) == RMul(sm.scale, sm.mat.v[<< i, j >>])

\* a matrix with its entries held as a table of values
Dense(X) == [r |-> X.r, c |-> X.c, v |-> X.v @@ << >>]

\* the values of a scaled matrix as a dense matrix
Values(sm) == Dense(MScale(sm.scale, sm.mat))

(***************************************************************************)
(* TetExp::CreateStaticCondMatrix                                          *)
(***************************************************************************)
\* the local matrix of element m: a scaled matrix over the standard matrix
GetLocMatrix(m) == ScalMat(RInt(elScale[m]), stdMat)

\* mutant of Gather: the row and column indices are exchanged
GatherTransposed(sm, rmap, cmap) ==
    [r |-> Len(rmap), c |-> Len(cmap),
     v |-> [ij \in Coords(Len(rmap), Len(cmap)) |->
              ScalValue(sm, cmap[ij[2] + 1], rmap[ij[1] + 1])]]

\* the gather loops: X(i,j) = mat(rmap[i], cmap[j])
Gather(sm, rmap, cmap) ==
    [r |-> Len(rmap), c |-> Len(cmap),
     v |-> [ij \in Coords(Len(rmap), Len(cmap)) |->
              ScalValue(sm, rmap[ij[1] + 1], cmap[ij[2] + 1])]]

\* mutant of Condense: A is updated before B is, with the B of the gather
CondenseStaleB(A, B, Cm, D) ==
    IF D.r > 0
    THEN [A |-> MSub(A, MMul(B, Cm)), B |-> MMul(B, MInvert(D)), C |-> Cm,
          D |-> MInvert(D)]
    ELSE [A |-> A, B |-> B, C |-> Cm, D |-> D]

\* "Calculate static condensed system": if(nint) { D->Invert();
\* B = B * D; A = A - B * C; }
Condense(A, B, Cm, D) ==
    IF D.r > 0
    THEN LET Dinv == MInvert(D)
             BDinv == MMul(B, Dinv)
         IN  [A |-> MSub(A, MMul(BDinv, Cm)), B |-> BDinv, C |-> Cm, D |-> Dinv]
    ELSE [A |-> A, B |-> B, C |-> Cm, D |-> D]

\* the blocks A, B, C, D of a scaled matrix under the boundary/interior maps
BlocksOf(sm) ==
    [A |-> Gather(sm, bmap, bmap), B |-> Gather(sm, bmap, imap),
     C |-> Gather(sm, imap, bmap), D |-> Gather(sm, imap, imap)]

\* StdExpansion::GetStdStaticCondMatrix: the condensation of the standard
\* matrix itself
StdStaticCondMatrix ==
    LET blk == BlocksOf(ScalMat(RInt(1), stdMat))
    IN  Condense(blk.A, blk.B, blk.C, blk.D)

\* the switch and the goto of CreateStaticCondMatrix
UsesLocRegionsMatrix(m, ty) ==
    \/ ty \in {"eLaplacian", "eHelmholtz"}
    \/ gtype[m] = "eDeformed"

\* D->Invert() fails on a singular interior block
CondensationFails(m, ty) ==
    LET D == IF UsesLocRegionsMatrix(m, ty)
             THEN BlocksOf(GetLocMatrix(m)).D
             ELSE BlocksOf(ScalMat(RInt(1), stdMat)).D
    IN  D.r > 0 /\ IsSingular(D)

\* mutant of CreateStaticCondMatrix: block (1,1) of the standard matrix is
\* scaled by factor
CreateStaticCondMatrixFactorD(m, ty) ==
    IF UsesLocRegionsMatrix(m, ty)
    THEN LET factor == RInt(1)
             blk == BlocksOf(GetLocMatrix(m))
             cnd == Condense(blk.A, blk.B, blk.C, blk.D)
         IN  [b00 |-> ScalMat(factor, cnd.A), b01 |-> ScalMat(RInt(1), cnd.B),
              b10 |-> ScalMat(factor, cnd.C), b11 |-> ScalMat(RInv(factor), cnd.D)]
    ELSE LET factor == GetLocMatrix(m).scale
             mat == StdStaticCondMatrix
         IN  [b00 |-> ScalMat(factor, mat.A), b01 |-> ScalMat(RInt(1), mat.B),
              b10 |-> ScalMat(factor, mat.C), b11 |-> ScalMat(factor, mat.D)]

\* the 2x2 block matrix CreateStaticCondMatrix returns
CreateStaticCondMatrix(m, ty) ==
    IF UsesLocRegionsMatrix(m, ty)
    THEN LET factor == RInt(1)
             blk == BlocksOf(GetLocMatrix(m))
             cnd == Condense(blk.A, blk.B, blk.C, blk.D)
         IN  [b00 |-> ScalMat(factor, cnd.A), b01 |-> ScalMat(RInt(1), cnd.B),
              b10 |-> ScalMat(factor, cnd.C), b11 |-> ScalMat(RInv(factor), cnd.D)]
    ELSE LET factor == GetLocMatrix(m).scale
             mat == StdStaticCondMatrix
         IN  [b00 |-> ScalMat(factor, mat.A), b01 |-> ScalMat(RInt(1), mat.B),
              b10 |-> ScalMat(factor, mat.C), b11 |-> ScalMat(RInv(factor), mat.D)]

(***************************************************************************)
(* ExpList::GenGlobalLinSysStaticCond, for keys without variable           *)
(* coefficients.                                                           *)
(***************************************************************************)
\* the rows the standard matrix is drawn from
StdRows == { << 2, -1, 0 >>, << -1, 2, -1 >>, << 0, -1, 2 >>, << 1, 1, 1 >> }

ScaleFactors == {1, 2}

\* the boundary/interior partitions of the three local modes
BndIntMaps ==
    { [b |-> << 0, 1 >>, i |-> << 2 >>], [b |-> << 0, 2 >>, i |-> << 1 >>],
      [b |-> << 0 >>, i |-> << 1, 2 >>], [b |-> << 0, 1, 2 >>, i |-> << >>] }

LinSysTypes == {"eHelmholtz", "eMass"}

RhsVectors == { << 1, 0, 0 >>, << 0, 1, 0 >>, << 0, 0, 1 >>, << 1, -1, 2 >> }

\* an empty pointer to a scaled matrix, and to a 2x2 block matrix
NullScalMat == ScalMat(RInt(0), [r |-> 0, c |-> 0, v |-> << >>])

NullBlkMat ==
    [b00 |-> NullScalMat, b01 |-> NullScalMat, b10 |-> NullScalMat, b11 |-> NullScalMat]

NoBlocks == [m \in Idx(NumExp) |-> NullScalMat]

NoBlkMats == [m \in Idx(NumExp) |-> NullBlkMat]

CondInit ==
    /\ \E raw \in [Idx(3) -> StdRows] :
         stdMat = [r |-> 3, c |-> 3,
                   v |-> [ij \in Coords(3, 3) |-> RInt(raw[ij[1]][ij[2] + 1])]]
    /\ elScale \in [Idx(NumExp) -> ScaleFactors]
    /\ gtype \in [Idx(NumExp) -> {"eRegular", "eDeformed"}]
    /\ \A m \in Idx(NumExp) : gtype[m] = "eDeformed" => elScale[m] = 1
    /\ \E bi \in BndIntMaps : bmap = bi.b /\ imap = bi.i
    /\ staticCondMgr = NoBlkMats
    /\ cpc = "idle"
    /\ ctype = "none"
    /\ cn = 0
    /\ SchurCompl = NoBlocks
    /\ BinvD = NoBlocks
    /\ C = NoBlocks
    /\ invD = NoBlocks
    /\ sol = "none"

CallGenGlobalLinSysStaticCond ==
    /\ cpc = "idle"
    /\ \E ty \in LinSysTypes : ctype' = ty
    /\ cpc' = "loop"
    /\ cn' = 0
    /\ UNCHANGED nonCondVars
    /\ UNCHANGED << stdMat, elScale, gtype, bmap, imap, staticCondMgr,
                    SchurCompl, BinvD, C, invD, sol >>

\* one pass of the loop: loc_mat = GetLocStaticCondMatrix(matkey), created
\* by the manager on the first request, and the four SetBlock(n,n,...)
StaticCondElmt ==
    /\ cpc = "loop"
    /\ cn < NumExp
    /\ staticCondMgr[cn] # NullBlkMat \/ ~CondensationFails(cn, ctype)
    /\ LET loc_mat == IF staticCondMgr[cn] = NullBlkMat
                      THEN CreateStaticCondMatrix(cn, ctype)
                      ELSE staticCondMgr[cn]
       IN  /\ staticCondMgr' = [staticCondMgr EXCEPT ![cn] = loc_mat]
           /\ SchurCompl' = [SchurCompl EXCEPT ![cn] = loc_mat.b00]
           /\ BinvD' = [BinvD EXCEPT ![cn] = loc_mat.b01]
           /\ C' = [C EXCEPT ![cn] = loc_mat.b10]
           /\ invD' = [invD EXCEPT ![cn] = loc_mat.b11]
    /\ cn' = cn + 1
    /\ UNCHANGED nonCondVars
    /\ UNCHANGED << stdMat, elScale, gtype, bmap, imap, cpc, ctype, sol >>

\* the interior block of the element cannot be inverted: fatal
StaticCondElmtFails ==
    /\ cpc = "loop"
    /\ cn < NumExp
    /\ staticCondMgr[cn] = NullBlkMat
    /\ CondensationFails(cn, ctype)
    /\ cpc' = "fatal"
    /\ UNCHANGED nonCondVars
    /\ UNCHANGED << stdMat, elScale, gtype, bmap, imap, staticCondMgr, ctype,
                    cn, SchurCompl, BinvD, C, invD, sol >>

\* the GlobalLinSys object is returned
ReturnLinSys ==
    /\ cpc = "loop"
    /\ cn = NumExp
    /\ cpc' = "built"
    /\ UNCHANGED nonCondVars
    /\ UNCHANGED << stdMat, elScale, gtype, bmap, imap, staticCondMgr, ctype,
                    cn, SchurCompl, BinvD, C, invD, sol >>

(***************************************************************************)
(* The two steps of the statically condensed solve of GlobalLinSys, for    *)
(* one element: S u_b = f_b - BinvD f_i, then u_i = invD (f_i - C u_b).    *)
(***************************************************************************)
\* the entries of the right-hand side f at the local modes of map
ColVec(f, map) ==
    [r |-> Len(map), c |-> 1,
     v |-> [ij \in Coords(Len(map), 1) |-> RInt(f[map[ij[1] + 1] + 1])]]

\* the right-hand side of the boundary system
BoundaryRhs(m, f) ==
    IF Len(imap) > 0
    THEN MSub(ColVec(f, bmap), MMul(Values(BinvD[m]), ColVec(f, imap)))
    ELSE ColVec(f, bmap)

\* step 1: the boundary system is solved
SolveBoundary(m, f) == MMul(MInvert(Values(SchurCompl[m])), BoundaryRhs(m, f))

\* step 2: the interior degrees of freedom are recovered
RecoverInterior(m, f, ub) ==
    MMul(Values(invD[m]), MSub(ColVec(f, imap), MMul(Values(C[m]), ub)))

SolveElmt ==
    /\ cpc = "built"
    /\ \E m \in Idx(NumExp), f \in RhsVectors :
         /\ ~IsSingular(Values(SchurCompl[m]))
         /\ LET ub == SolveBoundary(m, f)
            IN  sol' = [el |-> m, rhs |-> f, ub |-> ub,
                        ui |-> RecoverInterior(m, f, ub)]
    /\ cpc' = "solved"
    /\ UNCHANGED nonCondVars
    /\ UNCHANGED << stdMat, elScale, gtype, bmap, imap, staticCondMgr, ctype,
                    cn, SchurCompl, BinvD, C, invD >>

\* the boundary system of the element is singular: the solve fails
SolveElmtFails ==
    /\ cpc = "built"
    /\ \E m \in Idx(NumExp) : IsSingular(Values(SchurCompl[m]))
    /\ cpc' = "fatal"
    /\ UNCHANGED nonCondVars
    /\ UNCHANGED << stdMat, elScale, gtype, bmap, imap, staticCondMgr, ctype,
                    cn, SchurCompl, BinvD, C, invD, sol >>

CondNext ==
    \/ CallGenGlobalLinSysStaticCond
    \/ StaticCondElmt
    \/ StaticCondElmtFails
    \/ ReturnLinSys
    \/ SolveElmt
    \/ SolveElmtFails

InitCond == AsmIdle /\ CondInit /\ CacheIdle /\ BlockIdle /\ SolverIdle

SpecCond == InitCond /\ [][CondNext]_vars

\* the entries of the local matrix of element m at the rows rmap and the
\* columns cmap
SubMatrix(m, rmap, cmap) ==
    [r |-> Len(rmap), c |-> Len(cmap),
     v |-> [ij \in Coords(Len(rmap), Len(cmap)) |->
              RMul(RInt(elScale[m]), stdMat.v[<< rmap[ij[1] + 1], cmap[ij[2] + 1] >>])]]

C6_CondensedSolveIsDirectSolve ==
    cpc = "solved" =>
      LET M == Values(GetLocMatrix(sol.el))
          f == [r |-> 3, c |-> 1, v |-> [ij \in Coords(3, 1) |-> RInt(sol.rhs[ij[1] + 1])]]
      IN  /\ ~IsSingular(M)
          /\ LET u == MMul(MInvert(M), f)
             IN  /\ \A k \in 1..Len(bmap) :
                       sol.ub.v[<< k - 1, 0 >>] = u.v[<< bmap[k], 0 >>]
                 /\ \A k \in 1..Len(imap) :
                       sol.ui.v[<< k - 1, 0 >>] = u.v[<< imap[k], 0 >>]

\* a solve with interior modes whose boundary solution depends on the
\* interior right-hand side
C6_Witness ==
    /\ cpc = "solved"
    /\ Len(imap) > 0
    /\ sol.ub # MMul(MInvert(Values(SchurCompl[sol.el])), ColVec(sol.rhs, bmap))
    /\ \E k \in 1..Len(imap) : sol.ui.v[<< k - 1, 0 >>][2] # 1

(***************************************************************************)
(* ExpList::GetBlockMatrix and the matrix managers of the elements.  A     *)
(* matrix object is identified by its key and by the count of the          *)
(* generation that produced it.                                            *)
(***************************************************************************)
MaxCalls == 3

NumThreads == 2

MaxThreadCalls == 2

\* the matrix types of the switch of GenBlockMatrix
BlockMatrixTypes ==
    {"eBwdTrans", "eIProductWRTBase", "eMass", "eInvMass", "eHelmholtz",
     "eLaplacian", "eInvHybridDGHelmholtz", "eHybridDGLamToU"}

\* keys: the matrix type and a constant of the key
BlockKeys ==
    { << "eMass", 0 >>, << "eHelmholtz", 1 >>, << "eHelmholtz", 2 >>,
      << "eLinearAdvection", 0 >> }

Threads == 1..NumThreads

\* an empty shared pointer
NullPtr == [key |-> << "null", 0 >>, gen |-> 0, blocks |-> << >>]

\* mutant of Found: the lookup never finds the key
FoundNever(cache, gkey) == FALSE

\* m_blockMat->find(gkey) != m_blockMat->end()
Found(cache, gkey) == gkey \in DOMAIN cache

\* mutant of StoreEntry: the entry replaces the whole map
StoreEntryEvicting(cache, gkey, mat) == [k \in {gkey} |-> mat]

\* m_blockMat[gkey] = mat
StoreEntry(cache, gkey, mat) ==
    [k \in DOMAIN cache \cup {gkey} |-> IF k = gkey THEN mat ELSE cache[k]]

\* m_blockMat[gkey] evaluated alone: an absent key gets an empty pointer
IndexEntry(cache, gkey) ==
    IF gkey \in DOMAIN cache THEN cache ELSE StoreEntry(cache, gkey, NullPtr)

\* m_exp[e]->GetLocMatrix(matkey): m_matrixManager[mkey], which creates
\* the matrix of a key it does not hold
GetLocMatrixObject(e, mkey) ==
    IF Found(matrixManager[e], mkey)
    THEN matrixManager[e][mkey]
    ELSE [el |-> e, key |-> mkey, gen |-> createCount[e][mkey] + 1]

\* the managers of the elements once every element was asked for mkey
ManagersAfter(es, mkey) ==
    [e \in Idx(NumExp) |->
       IF e \in es
       THEN StoreEntry(matrixManager[e], mkey, GetLocMatrixObject(e, mkey))
       ELSE matrixManager[e]]

CreateCountAfter(es, mkey) ==
    [e \in Idx(NumExp) |->
       [k \in BlockKeys |->
          IF e \in es /\ k = mkey /\ ~Found(matrixManager[e], mkey)
          THEN createCount[e][k] + 1
          ELSE createCount[e][k]]]

\* GenBlockMatrix: the block-diagonal matrix of the local matrices
GenBlockMatrix(gkey) ==
    [key |-> gkey, gen |-> genCount[gkey] + 1,
     blocks |-> [e \in Idx(NumExp) |-> GetLocMatrixObject(e, gkey)]]

CacheInit ==
    /\ blockMat = << >>
    /\ genCount = [k \in BlockKeys |-> 0]
    /\ matrixManager = [e \in Idx(NumExp) |-> << >>]
    /\ createCount = [e \in Idx(NumExp) |-> [k \in BlockKeys |-> 0]]
    /\ returned = << >>
    /\ cachePc = "run"
    /\ thread = [t \in Threads |-> [pc |-> "idle", key |-> "none", mat |-> NullPtr, calls |-> 0]]

\* one call of GetBlockMatrix that returns
GetBlockMatrix ==
    /\ cachePc = "run"
    /\ Len(returned) < MaxCalls
    /\ \E gkey \in BlockKeys :
         IF Found(blockMat, gkey)
         THEN /\ returned' = Append(returned, [op |-> "GetBlockMatrix", key |-> gkey,
                                               el |-> -1, mat |-> blockMat[gkey]])
              /\ UNCHANGED << blockMat, genCount, matrixManager, createCount >>
         ELSE /\ gkey[1] \in BlockMatrixTypes
              /\ LET mat == GenBlockMatrix(gkey)
                 IN  /\ blockMat' = StoreEntry(blockMat, gkey, mat)
                     /\ returned' = Append(returned, [op |-> "GetBlockMatrix",
                                             key |-> gkey, el |-> -1, mat |-> mat])
              /\ genCount' = [genCount EXCEPT ![gkey] = @ + 1]
              /\ matrixManager' = ManagersAfter(Idx(NumExp), gkey)
              /\ createCount' = CreateCountAfter(Idx(NumExp), gkey)
    /\ UNCHANGED << cachePc, thread >>
    /\ UNCHANGED nonCacheVars

\* one call of GetBlockMatrix with a key whose type GenBlockMatrix does not
\* define: the fatal error ends the run.  The map may or may not have been
\* indexed before GenBlockMatrix was called.
GetBlockMatrixFatal ==
    /\ cachePc = "run"
    /\ Len(returned) < MaxCalls
    /\ \E gkey \in BlockKeys :
         /\ ~Found(blockMat, gkey)
         /\ gkey[1] \notin BlockMatrixTypes
         /\ genCount' = [genCount EXCEPT ![gkey] = @ + 1]
         /\ blockMat' \in {blockMat, IndexEntry(blockMat, gkey)}
    /\ cachePc' = "fatal"
    /\ UNCHANGED << matrixManager, createCount, returned, thread >>
    /\ UNCHANGED nonCacheVars

\* an element is asked for a local matrix by another routine of the list
GetLocMatrixCall ==
    /\ cachePc = "run"
    /\ Len(returned) < MaxCalls
    /\ \E e \in Idx(NumExp), mkey \in BlockKeys :
         /\ returned' = Append(returned, [op |-> "GetLocMatrix", key |-> mkey,
                                          el |-> e, mat |-> GetLocMatrixObject(e, mkey)])
         /\ matrixManager' = ManagersAfter({e}, mkey)
         /\ createCount' = CreateCountAfter({e}, mkey)
    /\ UNCHANGED << blockMat, genCount, cachePc, thread >>
    /\ UNCHANGED nonCacheVars

CacheNext ==
    \/ GetBlockMatrix
    \/ GetBlockMatrixFatal
    \/ GetLocMatrixCall

InitCache == AsmIdle /\ CondIdle /\ CacheInit /\ BlockIdle /\ SolverIdle

SpecCache == InitCache /\ [][CacheNext]_vars

(***************************************************************************)
(* C7: in any sequence of calls on one expansion list GenBlockMatrix is    *)
(* invoked at most once per key and an element creates the local matrix of *)
(* a key at most once; every call that returns for a key returns the       *)
(* matrix the first call for that key stored, which is still the cached    *)
(* one.  A fatal error of the generator ends the sequence of calls.        *)
(***************************************************************************)
C7_GeneratedAtMostOnce ==
    cachePc \in {"run", "fatal"} =>
      /\ \A k \in BlockKeys : genCount[k] <= 1
      /\ \A e \in Idx(NumExp), k \in BlockKeys : createCount[e][k] <= 1
      /\ \A i \in DOMAIN returned, j \in DOMAIN returned :
           (/\ i < j
            /\ returned[i].op = returned[j].op
            /\ returned[i].key = returned[j].key
            /\ returned[i].el = returned[j].el)
             => returned[j].mat = returned[i].mat
      /\ \A i \in DOMAIN returned :
           IF returned[i].op = "GetBlockMatrix"
           THEN /\ genCount[returned[i].key] = 1
                /\ blockMat[returned[i].key] = returned[i].mat
           ELSE /\ createCount[returned[i].el][returned[i].key] = 1
                /\ matrixManager[returned[i].el][returned[i].key] = returned[i].mat

\* a key was asked for three times, and another call in the run generated
\* nothing new for a block of an element
C7_Witness ==
    /\ cachePc = "run"
    /\ Len(returned) = MaxCalls
    /\ returned[1].op = "GetLocMatrix"
    /\ \A i \in 2..Len(returned) :
         returned[i].op = "GetBlockMatrix" /\ returned[i].key = returned[1].key
    /\ genCount[returned[1].key] = 1
    /\ returned[2].mat.blocks[returned[1].el] = returned[1].mat

(***************************************************************************)
(* C9: every step of a sequence of lookups keeps every entry of the        *)
(* block-matrix cache: a key that is stored is still stored after the      *)
(* step, with the same matrix.                                             *)
(***************************************************************************)
C9_CacheOnlyGrows ==
    [][\A k \in DOMAIN blockMat : k \in DOMAIN blockMat' /\ blockMat'[k] = blockMat[k]]_vars

\* the cache holds two entries and a lookup has been served after the
\* second was stored
C9_Witness ==
    /\ cachePc = "run"
    /\ Cardinality(DOMAIN blockMat) = 2
    /\ Len(returned) = 3
    /\ returned[1].op = "GetBlockMatrix"
    /\ returned[2].op = "GetBlockMatrix"
    /\ returned[3] = returned[1]
    /\ returned[2].key # returned[1].key

(***************************************************************************)
(* GetBlockMatrix called by several threads on one expansion list.  The    *)
(* code takes no lock: the lookup, the generation and the store of two     *)
(* callers interleave.                                                     *)
(***************************************************************************)
ThreadCall(t) ==
    /\ cachePc = "run"
    /\ thread[t].pc = "idle"
    /\ thread[t].calls < MaxThreadCalls
    /\ \E gkey \in BlockKeys :
         thread' = [thread EXCEPT ![t] = [pc |-> "find", key |-> gkey,
                                          mat |-> NullPtr, calls |-> @.calls + 1]]
    /\ UNCHANGED << blockMat, genCount, matrixManager, createCount, returned, cachePc >>
    /\ UNCHANGED nonCacheVars

\* matrixIter = m_blockMat->find(gkey); the entry found is returned
ThreadFind(t) ==
    /\ cachePc = "run"
    /\ thread[t].pc = "find"
    /\ IF Found(blockMat, thread[t].key)
       THEN /\ returned' = Append(returned, [op |-> "GetBlockMatrix",
                              key |-> thread[t].key, el |-> -1,
                              mat |-> blockMat[thread[t].key]])
            /\ thread' = [thread EXCEPT ![t].pc = "idle"]
       ELSE /\ thread' = [thread EXCEPT ![t].pc = "gen"]
            /\ UNCHANGED returned
    /\ UNCHANGED << blockMat, genCount, matrixManager, createCount, cachePc >>
    /\ UNCHANGED nonCacheVars

\* GenBlockMatrix(gkey), before or after the map was indexed with gkey
ThreadGen(t) ==
    /\ cachePc = "run"
    /\ thread[t].pc = "gen"
    /\ genCount' = [genCount EXCEPT ![thread[t].key] = @ + 1]
    /\ blockMat' \in {blockMat, IndexEntry(blockMat, thread[t].key)}
    /\ IF thread[t].key[1] \in BlockMatrixTypes
       THEN /\ thread' = [thread EXCEPT ![t].pc = "store",
                                        ![t].mat = GenBlockMatrix(thread[t].key)]
            /\ matrixManager' = ManagersAfter(Idx(NumExp), thread[t].key)
            /\ createCount' = CreateCountAfter(Idx(NumExp), thread[t].key)
            /\ UNCHANGED cachePc
       ELSE /\ cachePc' = "fatal"
            /\ UNCHANGED << thread, matrixManager, createCount >>
    /\ UNCHANGED returned
    /\ UNCHANGED nonCacheVars

\* the assignment to the entry of the map, and the return of the entry
ThreadStore(t) ==
    /\ cachePc = "run"
    /\ thread[t].pc = "store"
    /\ blockMat' = StoreEntry(blockMat, thread[t].key, thread[t].mat)
    /\ returned' = Append(returned, [op |-> "GetBlockMatrix", key |-> thread[t].key,
                                     el |-> -1, mat |-> thread[t].mat])
    /\ thread' = [thread EXCEPT ![t].pc = "idle"]
    /\ UNCHANGED << genCount, matrixManager, createCount, cachePc >>
    /\ UNCHANGED nonCacheVars

CacheMTNext ==
    \E t \in Threads :
      \/ ThreadCall(t)
      \/ ThreadFind(t)
      \/ ThreadGen(t)
      \/ ThreadStore(t)

SpecCacheMT == InitCache /\ [][CacheMTNext]_vars

(***************************************************************************)
(* C8: under every interleaving of the callers' steps the matrix of a key  *)
(* is generated at most once, and exactly once when a call for the key     *)
(* has returned; all calls for the key return that one matrix.             *)
(***************************************************************************)
C8_ComputedExactlyOnce ==
    cachePc \in {"run", "fatal"} =>
      /\ \A k \in BlockKeys : genCount[k] <= 1
      /\ \A i \in DOMAIN returned, j \in DOMAIN returned :
           returned[i].key = returned[j].key => returned[j].mat = returned[i].mat
      /\ \A i \in DOMAIN returned :
           genCount[returned[i].key] = 1 /\ returned[i].mat # NullPtr

\* two callers have both missed the same key and both have generated it
C8_Witness ==
    /\ thread[1].pc = "store"
    /\ thread[2].pc = "store"
    /\ thread[1].key = thread[2].key
    /\ thread[1].mat # thread[2].mat

(***************************************************************************)
(* GlobalLinSys::GetBlock and GlobalLinSys::GetStaticCondBlock, for keys   *)
(* without variable coefficients and other than eHybridDGHelmBndLam.       *)
(***************************************************************************)
MaxRetrievals == 2

\* the chains of Robin conditions of an element: the primitive coefficient
\* of each condition of the chain
RobinChains == { << >>, << 1, 3 >> }

\* vExp->AddRobinMassMatrix(id, coeffs, mat): the mass matrix of the edge,
\* weighted by the coefficient, is added to mat
AddRobinMassMatrix(X, coeff) ==
    [X EXCEPT !.v = [ij \in DOMAIN X.v |->
                       IF ij = << 0, 0 >> THEN RAdd(X.v[ij], RInt(coeff)) ELSE X.v[ij]]]

RECURSIVE AddRobinChain(_, _, _)
\* for(rBC = ...; rBC; rBC = rBC->next) AddRobinMassMatrix(..., new_mat)
AddRobinChain(X, chain, k) ==
    IF k > Len(chain) THEN X
    ELSE AddRobinChain(AddRobinMassMatrix(X, chain[k]), chain, k + 1)

\* new_mat: the values of the scaled matrix, copied and rescaled, with the
\* Robin mass matrices added; wrapped with the scale one
WithRobin(sm, chain) == ScalMat(RInt(1), AddRobinChain(Values(sm), chain, 1))

\* vExp->GetLocMatrix(matkey): the manager creates the matrix it does not hold
ManagedLocMatrix(m) ==
    IF locMatMgr[m] = NullScalMat THEN GetLocMatrix(m) ELSE locMatMgr[m]

\* vExp->GetLocStaticCondMatrix(matkey)
ManagedStaticCondMatrix(m) ==
    IF staticCondMgr[m] = NullBlkMat
    THEN CreateStaticCondMatrix(m, ctype)
    ELSE staticCondMgr[m]

\* the matrix GetBlock(m) returns
GetBlock(m) ==
    IF robinBC[m] # << >>
    THEN WithRobin(ManagedLocMatrix(m), robinBC[m])
    ELSE ManagedLocMatrix(m)

\* the block matrix GetStaticCondBlock(m) returns: the object of the
\* manager, whose block (0,0) was set to the new matrix
GetStaticCondBlock(m) ==
    IF robinBC[m] # << >>
    THEN [ManagedStaticCondMatrix(m) EXCEPT
            !.b00 = WithRobin(ManagedStaticCondMatrix(m).b00, robinBC[m])]
    ELSE ManagedStaticCondMatrix(m)

BlockInit ==
    /\ \E raw \in [Idx(3) -> StdRows] :
         /\ raw[0] = << 2, -1, 0 >>
         /\ raw[1] # raw[0] /\ raw[1] # << 1, 1, 1 >>
         /\ raw[2] = << 0, -1, 2 >>
         /\ stdMat = [r |-> 3, c |-> 3,
                      v |-> [ij \in Coords(3, 3) |-> RInt(raw[ij[1]][ij[2] + 1])]]
    /\ elScale \in [Idx(NumExp) -> ScaleFactors]
    /\ gtype \in [Idx(NumExp) -> {"eRegular", "eDeformed"}]
    /\ \A m \in Idx(NumExp) : gtype[m] = "eDeformed" => elScale[m] = 1
    /\ \E bi \in BndIntMaps : bmap = bi.b /\ imap = bi.i
    /\ ctype \in LinSysTypes
    /\ staticCondMgr = NoBlkMats
    /\ cpc = "off"
    /\ cn = 0
    /\ SchurCompl = NoBlocks /\ BinvD = NoBlocks /\ C = NoBlocks /\ invD = NoBlocks
    /\ sol = "none"
    /\ robinBC \in [Idx(NumExp) -> RobinChains]
    /\ locMatMgr = NoBlocks
    /\ retrieved = << >>
    /\ bpc = "run"

GetBlockCall ==
    /\ bpc = "run"
    /\ Len(retrieved) < MaxRetrievals
    /\ \E m \in Idx(NumExp) :
         /\ locMatMgr' = [locMatMgr EXCEPT ![m] = ManagedLocMatrix(m)]
         /\ retrieved' = Append(retrieved, [op |-> "GetBlock", el |-> m,
                                            mat |-> << Values(GetBlock(m)) >>])
    /\ UNCHANGED << robinBC, bpc >>
    /\ UNCHANGED nonBlockVars

GetStaticCondBlockCall ==
    /\ bpc = "run"
    /\ Len(retrieved) < MaxRetrievals
    /\ \E m \in Idx(NumExp) :
         /\ staticCondMgr[m] # NullBlkMat \/ ~CondensationFails(m, ctype)
         /\ LET loc_mat == GetStaticCondBlock(m)
            IN  /\ staticCondMgr' = [staticCondMgr EXCEPT ![m] = loc_mat]
                /\ retrieved' = Append(retrieved,
                      [op |-> "GetStaticCondBlock", el |-> m,
                       mat |-> << Values(loc_mat.b00), Values(loc_mat.b01),
                                  Values(loc_mat.b10), Values(loc_mat.b11) >>])
    /\ UNCHANGED << robinBC, locMatMgr, bpc >>
    /\ UNCHANGED << stdMat, elScale, gtype, bmap, imap, cpc, ctype, cn,
                    SchurCompl, BinvD, C, invD, sol >>
    /\ UNCHANGED << asmVars, cacheVars, solverVars, auxVars >>

\* the interior block of the element cannot be inverted: fatal
GetStaticCondBlockFails ==
    /\ bpc = "run"
    /\ Len(retrieved) < MaxRetrievals
    /\ \E m \in Idx(NumExp) :
         staticCondMgr[m] = NullBlkMat /\ CondensationFails(m, ctype)
    /\ bpc' = "fatal"
    /\ UNCHANGED << robinBC, locMatMgr, retrieved >>
    /\ UNCHANGED nonBlockVars

BlockNext ==
    \/ GetBlockCall
    \/ GetStaticCondBlockCall
    \/ GetStaticCondBlockFails

InitBlock == AsmIdle /\ CacheIdle /\ BlockInit /\ SolverIdle

SpecBlock == InitBlock /\ [][BlockNext]_vars

(***************************************************************************)
(* C10: two retrievals of the same kind for the same element return the    *)
(* same values, and the matrices the managers of the elements hold are the *)
(* ones that were created: the local matrix of the element and its static  *)
(* condensation.                                                           *)
(***************************************************************************)
C10_RetrievalsIdentical ==
    bpc \in {"run", "fatal"} =>
      /\ \A i \in DOMAIN retrieved, j \in DOMAIN retrieved :
           (retrieved[i].op = retrieved[j].op /\ retrieved[i].el = retrieved[j].el)
             => retrieved[j].mat = retrieved[i].mat
      /\ \A m \in Idx(NumExp) :
           /\ locMatMgr[m] # NullScalMat => locMatMgr[m] = GetLocMatrix(m)
           /\ staticCondMgr[m] # NullBlkMat =>
                LET created == CreateStaticCondMatrix(m, ctype)
                IN  /\ Values(staticCondMgr[m].b00) = Values(created.b00)
                    /\ Values(staticCondMgr[m].b01) = Values(created.b01)
                    /\ Values(staticCondMgr[m].b10) = Values(created.b10)
                    /\ Values(staticCondMgr[m].b11) = Values(created.b11)

\* the static condensation blocks of an element with a Robin condition
\* were retrieved twice
C10_Witness ==
    /\ bpc = "run"
    /\ Len(retrieved) = 2
    /\ retrieved[1].op = "GetStaticCondBlock"
    /\ retrieved[2].op = "GetStaticCondBlock"
    /\ retrieved[1].el = retrieved[2].el
    /\ robinBC[retrieved[1].el] # << >>

(***************************************************************************)
(* NekDouble values of the solvers: a fraction, or NonFinite for the       *)
(* values (infinities, NaN) a division by zero produces.  In the solve a   *)
(* non-finite divisor only meets a non-finite dividend, so every operation *)
(* on NonFinite yields NonFinite; every comparison with it is false.       *)
(***************************************************************************)
NonFinite == << 0, 0 >>

IsFinite(x) == x[2] # 0

FAdd(x, y) == IF IsFinite(x) /\ IsFinite(y) THEN RAdd(x, y) ELSE NonFinite

FSub(x, y) == IF IsFinite(x) /\ IsFinite(y) THEN RSub(x, y) ELSE NonFinite

FMul(x, y) == IF IsFinite(x) /\ IsFinite(y) THEN RMul(x, y) ELSE NonFinite

FDiv(x, y) ==
    IF IsFinite(x) /\ IsFinite(y) /\ y[1] # 0 THEN RMul(x, RInv(y)) ELSE NonFinite

\* x < y
FLess(x, y) == IsFinite(x) /\ IsFinite(y) /\ x[1] * y[2] < y[1] * x[2]

\* sqrt(x) < y for x >= 0 and y > 0
SqrtLess(x, y) == FLess(x, RMul(y, y))

(***************************************************************************)
(* Arrays of NekDouble: functions over 0..n-1.                             *)
(***************************************************************************)
ArrayLen(a) == Cardinality(DOMAIN a)

\* Array<OneD, NekDouble>(n, 0.0)
ZeroArray(len) == [i \in Idx(len) |-> RInt(0)]

\* a + o: the array seen from offset o
Offset(a, o) == [i \in Idx(ArrayLen(a) - o) |-> a[i + o]]

\* the first nn entries of an array: NekVector(nn, a, eWrapper)
Wrapper(nn, a) == [i \in Idx(nn) |-> a[i]]

\* the array a with its first nn entries replaced by those of x
WriteWrapper(nn, a, x) == [i \in DOMAIN a |-> IF i < nn THEN x[i] ELSE a[i]]

RECURSIVE Dot2From(_, _, _, _, _)
Dot2From(nn, x, y, w, i) ==
    IF i >= nn THEN RInt(0)
    ELSE FAdd(FMul(RInt(w[i]), FMul(x[i], y[i])), Dot2From(nn, x, y, w, i + 1))

\* Vmath::Dot2: the sum of w[i]*x[i]*y[i] over the first nn entries
Dot2(nn, x, y, w) == Dot2From(nn, x, y, w, 0)

RECURSIVE RowDotFrom(_, _, _, _)
RowDotFrom(X, x, i, j) ==
    IF j >= X.c THEN RInt(0)
    ELSE FAdd(FMul(X.v[<< i, j >>], x[j]), RowDotFrom(X, x, i, j + 1))

\* operator* of a matrix and a vector
MatVec(X, x) == [i \in Idx(X.r) |-> RowDotFrom(X, x, i, 0)]

\* x + a*y
Axpy(x, a, y) == [i \in DOMAIN x |-> FAdd(x[i], FMul(a, y[i]))]

\* x - a*y
Axmy(x, a, y) == [i \in DOMAIN x |-> FSub(x[i], FMul(a, y[i]))]

(***************************************************************************)
(* GlobalLinSysIterative::v_SolveLinearSystem.                             *)
(***************************************************************************)
\* the number of loop iterations after which ASSERTL1(k < 20000, ...) fails:
\* the model follows the counter up to MaxIterations + 1
MaxIterations == 3

\* the number of solves the caller performs with the same linear system
MaxSolves == 2

\* NekConstants::kNekZeroTol and NekConstants::kNekIterativeTol, scaled to
\* the right-hand sides of the model:
\* kNekIterativeTol^2 < kNekZeroTol < kNekIterativeTol as in the library
kNekZeroTol == << 1, 8 >>

kNekIterativeTol == << 1, 4 >>

NoMatrix == [r |-> 0, c |-> 0, v |-> << >>]

nNonDir == nGlobal - nDir

\* Vmath::Zero(nNonDir, pOutput, 1), and a mutant of it that clears the
\* whole array
ZeroOutputAll(out, nn) == [i \in DOMAIN out |-> RInt(0)]

\* mutant of ZeroOutput: the output is left as it is
ZeroOutputNone(out, nn) == out

ZeroOutput(out, nn) == WriteWrapper(nn, out, ZeroArray(nn))

\* v_DoMatrixMultiply(d_A, p_A): p_A = sysMat * d_A
DoMatrixMultiply(dA) == MatVec(sysMat, dA)

\* out = out + alpha*d
UpdateSolution(out, alpha, d) == Axpy(out, alpha, d)

\* the statements before the loop: r = in; z = M * r; d = z; k = 0, and the
\* squared norm of r that Ddot2 reduces
SolveEntry(M) ==
    LET r == Wrapper(nNonDir, pInput)
        z == MatVec(M, r)
    IN  [r |-> r, z |-> z,
         d |-> [i \in Idx(nGlobal) |-> IF i < nDir THEN RInt(0) ELSE z[i - nDir]],
         rr |-> Dot2(nNonDir, r, r, Offset(m_map, nDir))]

\* one pass through the body of the loop, up to the convergence test
LoopBody ==
    LET M == m_preconditioner
        w == Offset(m_map, nDir)
        p == Offset(DoMatrixMultiply(d_A), nDir)
        d == Offset(d_A, nDir)
        vExchange0 == Dot2(nNonDir, d, p, w)
        vExchange1 == Dot2(nNonDir, z_A, r_A, w)
        vExchange2 == Dot2(nNonDir, r_A, z_A, w)
        alpha == FDiv(vExchange1, vExchange0)
        out == UpdateSolution(Wrapper(nNonDir, pOutput), alpha, d)
        r_new == Axmy(r_A, alpha, p)
        z_new == MatVec(M, r_new)
        beta == FDiv(Dot2(nNonDir, r_new, z_new, w), vExchange2)
        d_new == Axpy(z_new, beta, d)
    IN  [out |-> WriteWrapper(nNonDir, pOutput, out),
         step |-> [i \in Idx(nNonDir) |-> FMul(alpha, d[i])],
         r |-> r_new, z |-> z_new,
         d |-> [i \in Idx(nGlobal) |-> IF i < nDir THEN d_A[i] ELSE d_new[i - nDir]],
         normsq |-> Dot2(nNonDir, r_new, r_new, w)]

\* sqrt(normsq) < NekConstants::kNekIterativeTol
Converged(nsq) == SqrtLess(nsq, kNekIterativeTol)

\* ASSERTL1(k < 20000, ...) fails: the level 1 assertions are compiled in
\* debug builds only
AssertionFails(kk) == nektarDebug /\ ~(kk < MaxIterations)

\* the counter of the iterations, followed up to MaxIterations + 1
CountUp(c) == IF c > MaxIterations THEN c ELSE c + 1

(***************************************************************************)
(* The linear systems of the model: the rows of the block of the free      *)
(* degrees of freedom (positive definite, singular, indefinite, zero), the *)
(* diagonals of the inverse preconditioner, the right-hand sides and the   *)
(* contents of the output array at the call.                               *)
(***************************************************************************)
FreeBlocks ==
    { << << 2, -1 >>, << -1, 2 >> >>, << << 1, 1 >>, << 1, 1 >> >>,
      << << 1, 2 >>, << 2, 1 >> >>, << << 0, 0 >>, << 0, 0 >> >> }

PrecondDiagonals == { << << 1, 1 >>, << 1, 1 >> >>, << << 1, 2 >>, << 1, 1 >> >> }

RhsValues ==
    { << << 0, 1 >>, << 0, 1 >> >>, << << 1, 4 >>, << 0, 1 >> >>,
      << << 1, 1 >>, << 0, 1 >> >>, << << 1, 1 >>, << -2, 1 >> >> }

OutputValues == { << << 0, 1 >>, << 0, 1 >> >>, << << 1, 1 >>, << 3, 1 >> >> }

\* the numbers of Dirichlet degrees of freedom; two degrees are free
DirCounts == { 0, 1 }

\* the matrix of all degrees of freedom: the Dirichlet degrees come first
\* and are coupled to the first free degree
SystemMatrix(rows, nd) ==
    [r |-> nd + 2, c |-> nd + 2,
     v |-> [ij \in Coords(nd + 2, nd + 2) |->
              IF ij[1] >= nd /\ ij[2] >= nd
                THEN RInt(rows[ij[1] - nd + 1][ij[2] - nd + 1])
              ELSE IF ij[1] = ij[2] THEN RInt(2)
              ELSE IF ij[1] + ij[2] = 2 * nd - 1 THEN RInt(-1)
              ELSE RInt(0)]]

\* the matrix of the free degrees of freedom
FreeBlock(X, nd) ==
    [r |-> X.r - nd, c |-> X.c - nd,
     v |-> [ij \in Coords(X.r - nd, X.c - nd) |-> X.v[<< ij[1] + nd, ij[2] + nd >>]]]

DiagonalMatrix(diag) ==
    [r |-> Len(diag), c |-> Len(diag),
     v |-> [ij \in Coords(Len(diag), Len(diag)) |->
              IF ij[1] = ij[2] THEN diag[ij[1] + 1] ELSE RInt(0)]]

\* an array of len entries holding vals from offset o, and 5 elsewhere
Embedded(vals, o, len) ==
    [i \in Idx(len) |->
       IF i >= o /\ i < o + Len(vals) THEN vals[i - o + 1] ELSE RInt(5)]

\* the offset of the free degrees of freedom in the arrays of the caller
FirstFree == IF linSys = "PETSc" THEN nDir ELSE 0

CgInit ==
    /\ linSys \in { "Iterative", "PETSc" }
    /\ nDir \in DirCounts
    /\ nGlobal = nDir + 2
    /\ \E rows \in FreeBlocks : sysMat = SystemMatrix(rows, nDir)
    \* the outcome of a KSPSolve that fails is not modelled
    /\ linSys = "PETSc" => ~IsSingular(FreeBlock(sysMat, nDir))
    /\ m_preconditioner \in
         IF linSys = "PETSc" THEN { NoMatrix }
         ELSE { NoMatrix } \cup { DiagonalMatrix(dg) : dg \in PrecondDiagonals }
    /\ m_map = [i \in Idx(nGlobal) |-> 1]
    /\ \E rhs \in RhsValues : pInput = Embedded(rhs, FirstFree, nGlobal)
    /\ \E o \in OutputValues : pOutput = Embedded(o, FirstFree, nGlobal)
    /\ nektarDebug \in BOOLEAN
    /\ cgPc = "idle"
    /\ r_A = ZeroArray(2) /\ z_A = ZeroArray(2) /\ d_A = ZeroArray(nGlobal)
    /\ kIter = 0
    /\ normsq = RInt(0)
    /\ m_x = ZeroArray(2)
    /\ cgLog = [entryOut |-> pOutput, fromZero |-> ZeroArray(2), matVecs |-> 0,
                precondProducts |-> 0, bodies |-> 0, exit |-> "none",
                results |-> << >>]

CanCall(cls) ==
    /\ linSys = cls
    /\ cgPc \in { "idle", "returned" }
    /\ Len(cgLog.results) < MaxSolves

\* if (!m_preconditioner) v_ComputePreconditioner(): the matrices the
\* call may leave in m_preconditioner
PreconditionerAfter ==
    IF m_preconditioner = NoMatrix
      THEN { DiagonalMatrix(dg) : dg \in PrecondDiagonals }
    ELSE { m_preconditioner }

\* the call with a right-hand side below kNekZeroTol: lines 79-127
SolveZeroRhs ==
    /\ CanCall("Iterative")
    /\ \E M \in PreconditionerAfter :
         LET e == SolveEntry(M) IN
           /\ FLess(e.rr, kNekZeroTol)
           /\ m_preconditioner' = M
           /\ r_A' = e.r /\ z_A' = e.z /\ d_A' = e.d
           /\ kIter' = 0
           /\ pOutput' = ZeroOutput(pOutput, nNonDir)
           /\ cgPc' = "returned"
           /\ cgLog' = [cgLog EXCEPT !.entryOut = pOutput,
                          !.fromZero = ZeroArray(2), !.matVecs = 0,
                          !.precondProducts = 1, !.bodies = 0, !.exit = "zero",
                          !.results = Append(@, pOutput')]
    /\ UNCHANGED << linSys, sysMat, m_map, nGlobal, nDir, pInput, nektarDebug,
                    normsq, m_x >>
    /\ UNCHANGED << nonSolverVars, parVars, nsVars, lnsVars >>

\* the call that enters the loop: lines 79-130
SolveStart ==
    /\ CanCall("Iterative")
    /\ \E M \in PreconditionerAfter :
         LET e == SolveEntry(M) IN
           /\ ~FLess(e.rr, kNekZeroTol)
           /\ m_preconditioner' = M
           /\ r_A' = e.r /\ z_A' = e.z /\ d_A' = e.d
           /\ kIter' = 0
           /\ cgPc' = "loop"
           /\ cgLog' = [cgLog EXCEPT !.entryOut = pOutput,
                          !.fromZero = ZeroArray(2), !.matVecs = 0,
                          !.precondProducts = 1, !.bodies = 0, !.exit = "none"]
    /\ UNCHANGED << linSys, sysMat, m_map, nGlobal, nDir, pInput, pOutput,
                    nektarDebug, normsq, m_x >>
    /\ UNCHANGED << nonSolverVars, parVars, nsVars, lnsVars >>

LogBody(b) ==
    [cgLog EXCEPT !.fromZero = Axpy(@, RInt(1), b.step),
                  !.matVecs = CountUp(@), !.precondProducts = CountUp(@),
                  !.bodies = CountUp(@)]

\* an iteration that ends the loop: lines 133-189
IterateConverged ==
    /\ cgPc = "loop"
    /\ LET b == LoopBody IN
         /\ Converged(b.normsq)
         /\ pOutput' = b.out
         /\ normsq' = b.normsq
         /\ cgPc' = "returned"
         /\ cgLog' = [LogBody(b) EXCEPT !.exit = "converged",
                                        !.results = Append(@, b.out)]
    /\ UNCHANGED << linSys, sysMat, m_preconditioner, m_map, nGlobal, nDir,
                    pInput, nektarDebug, r_A, z_A, d_A, kIter, m_x >>
    /\ UNCHANGED << nonSolverVars, parVars, nsVars, lnsVars >>

\* an iteration after which the loop goes on: lines 133-201
IterateContinue ==
    /\ cgPc = "loop"
    /\ LET b == LoopBody IN
         /\ ~Converged(b.normsq)
         /\ ~AssertionFails(kIter + 1)
         /\ pOutput' = b.out
         /\ normsq' = b.normsq
         /\ d_A' = b.d /\ r_A' = b.r /\ z_A' = b.z
         /\ kIter' = CountUp(kIter)
         /\ cgLog' = LogBody(b)
    /\ UNCHANGED << linSys, sysMat, m_preconditioner, m_map, nGlobal, nDir,
                    pInput, nektarDebug, cgPc, m_x >>
    /\ UNCHANGED << nonSolverVars, parVars, nsVars, lnsVars >>

\* an iteration after which the assertion on k raises the fatal error
IterateFatal ==
    /\ cgPc = "loop"
    /\ LET b == LoopBody IN
         /\ ~Converged(b.normsq)
         /\ AssertionFails(kIter + 1)
         /\ pOutput' = b.out
         /\ normsq' = b.normsq
         /\ d_A' = b.d /\ r_A' = b.r /\ z_A' = b.z
         /\ kIter' = kIter + 1
         /\ cgPc' = "fatal"
         /\ cgLog' = LogBody(b)
    /\ UNCHANGED << linSys, sysMat, m_preconditioner, m_map, nGlobal, nDir,
                    pInput, nektarDebug, m_x >>
    /\ UNCHANGED << nonSolverVars, parVars, nsVars, lnsVars >>

(***************************************************************************)
(* GlobalLinSysPETSc::v_SolveLinearSystem, called by one process:          *)
(* m_reorderedMap is the identity and the scatter copies m_x.              *)
(***************************************************************************)
\* KSPSolve(m_ksp, m_b, m_x) with the matrix of the free degrees of freedom
KSPSolve(b) == MatVec(MInvert(FreeBlock(sysMat, nDir)), b)

\* Vmath::Vcopy(nHomDofs, avec, 1, &pOutput[pNumDir], 1)
CopyResults(out, x, pNumDir) ==
    [i \in DOMAIN out |-> IF i >= pNumDir THEN x[i - pNumDir] ELSE out[i]]

PetscSolve ==
    /\ CanCall("PETSc")
    /\ m_x' = KSPSolve(Offset(pInput, nDir))
    /\ pOutput' = CopyResults(pOutput, m_x', nDir)
    /\ cgPc' = "returned"
    /\ cgLog' = [cgLog EXCEPT !.entryOut = pOutput, !.exit = "solved",
                              !.results = Append(@, pOutput')]
    /\ UNCHANGED << linSys, sysMat, m_preconditioner, m_map, nGlobal, nDir,
                    pInput, nektarDebug, r_A, z_A, d_A, kIter, normsq >>
    /\ UNCHANGED << nonSolverVars, parVars, nsVars, lnsVars >>

CgNext ==
    \/ SolveZeroRhs
    \/ SolveStart
    \/ IterateConverged
    \/ IterateContinue
    \/ IterateFatal
    \/ PetscSolve

InitCG ==
    /\ AsmIdle /\ CondIdle /\ CacheIdle /\ BlockIdle
    /\ CgInit /\ ParIdle /\ NsIdle /\ LnsIdle /\ AuxIdle

SpecCG == InitCG /\ [][CgNext]_vars

(***************************************************************************)
(* Claims on the conjugate gradient solve.                                 *)
(***************************************************************************)
\* C11: every conjugate gradient solve terminates: the loop ends when the
\* residual norm is below the tolerance or when the iteration cap is
\* reached, which is a fatal error, so that a solve never runs more
\* iterations than the cap (MaxIterations here, 20000 in the source).
C11_IterationsCapped ==
    /\ cgLog.bodies <= MaxIterations
    /\ cgPc = "loop" => kIter < MaxIterations

\* a solve in a build without the level 1 assertions that is in the loop
\* after more iterations than the cap, with a residual that is not finite
C11_Witness ==
    /\ linSys = "Iterative" /\ ~nektarDebug /\ cgPc = "loop"
    /\ cgLog.bodies > MaxIterations
    /\ ~IsFinite(normsq)

\* the squared norm of the right-hand side of the call
RhsNormSq ==
    Dot2(nNonDir, Wrapper(nNonDir, pInput), Wrapper(nNonDir, pInput),
         Offset(m_map, nDir))

\* C12: the conjugate gradient solve never returns normally with an
\* unconverged result: when it has returned, either the squared norm of the
\* right-hand side was below the zero tolerance and the output is zero, or
\* the last residual norm computed is below the iterative tolerance; a solve
\* that has not converged at the iteration cap has raised the fatal error.
C12_NoUnconvergedReturn ==
    linSys = "Iterative" =>
      /\ cgPc = "returned" =>
           \/ /\ cgLog.exit = "zero"
              /\ FLess(RhsNormSq, kNekZeroTol)
              /\ Wrapper(nNonDir, pOutput) = ZeroArray(nNonDir)
           \/ /\ cgLog.exit = "converged"
              /\ Converged(normsq)
      /\ (cgLog.bodies >= MaxIterations /\ ~Converged(normsq)) => cgPc = "fatal"

\* a solve in a build without the level 1 assertions that has run the
\* iterations of the cap without converging and is still in the loop
C12_Witness ==
    /\ linSys = "Iterative" /\ ~nektarDebug
    /\ kIter = MaxIterations /\ ~Converged(normsq)
    /\ cgPc = "loop"

C14_SolutionFromZeroGuess ==
    (linSys = "Iterative" /\ cgPc = "returned" /\ cgLog.exit = "converged") =>
      Wrapper(nNonDir, pOutput) = cgLog.fromZero

\* a converged solve whose output array was not zero at the call: it returns
\* the steps added to the old contents
C14_Witness ==
    /\ linSys = "Iterative" /\ cgPc = "returned" /\ cgLog.exit = "converged"
    /\ Wrapper(nNonDir, cgLog.entryOut) # ZeroArray(nNonDir)
    /\ Wrapper(nNonDir, pOutput) =
         Axpy(Wrapper(nNonDir, cgLog.entryOut), RInt(1), cgLog.fromZero)
    /\ Wrapper(nNonDir, pOutput) # cgLog.fromZero

\* C15: boundary-value idempotence: solving the same system twice with the
\* same right-hand side, passing the same output array, leaves the output
\* after the second solve equal to the output after the first.
C15_SecondSolveSameOutput ==
    Len(cgLog.results) >= 2 => cgLog.results[2] = cgLog.results[1]

\* the second conjugate gradient solve has converged and has added its steps
\* to the result of the first
C15_Witness ==
    /\ linSys = "Iterative" /\ cgPc = "returned" /\ cgLog.exit = "converged"
    /\ Len(cgLog.results) = 2
    /\ cgLog.entryOut = cgLog.results[1]
    /\ cgLog.results[2] # cgLog.results[1]
    /\ Wrapper(nNonDir, cgLog.results[2]) =
         Axpy(Wrapper(nNonDir, cgLog.results[1]), RInt(1), cgLog.fromZero)

\* C19: a solve treats the linear system as read-only: every step of it
\* leaves the system matrix, the map and the right-hand side as they are, and
\* changes no entry of the output array other than those of the free
\* degrees of freedom.
C19_SolveIsReadOnly ==
    [][/\ sysMat' = sysMat
       /\ m_map' = m_map
       /\ pInput' = pInput
       /\ nGlobal' = nGlobal /\ nDir' = nDir
       /\ DOMAIN pOutput' = DOMAIN pOutput
       /\ \A i \in DOMAIN pOutput :
            (i < FirstFree \/ i >= FirstFree + nNonDir) => pOutput'[i] = pOutput[i]
      ]_vars

\* a solve with a Dirichlet degree of freedom has returned: the free entries
\* of the output have changed, the other entry has not
C19_Witness ==
    /\ cgPc = "returned" /\ nDir = 1
    /\ cgLog.exit \in { "converged", "solved" }
    /\ Wrapper(nNonDir, Offset(pOutput, FirstFree)) #
         Wrapper(nNonDir, Offset(cgLog.entryOut, FirstFree))
    /\ \A i \in DOMAIN pOutput :
         (i < FirstFree \/ i >= FirstFree + nNonDir) => pOutput[i] = RInt(5)

(***************************************************************************)
(* The conjugate gradient solve run by the processes of a communicator.    *)
(* The vectors of a process are abstracted to the local parts of the dot   *)
(* products it contributes to the reductions: any value of LocalParts.     *)
(* A process that has entered a collective operation waits in it until     *)
(* every process has entered its collective of the same rank in the order. *)
(***************************************************************************)
NumProcs == 2

Procs == 1..NumProcs

LocalParts == { 0, 1 }

\* the number of collectives process p has entered
Entered(p) == Len(trace[p])

\* every process has entered the collective process p waits in
AllArrived(p) == \A q \in Procs : Entered(q) >= Entered(p)

RECURSIVE SumSlots(_, _)
SumSlots(c, q) == IF q = 0 THEN 0 ELSE slot[q][c % 2] + SumSlots(c, q - 1)

\* mutant of AllReduceSum: the local part instead of the reduced value
AllReduceLocal(p) == RInt(slot[p][Entered(p) % 2])

\* the value process p receives from the collective it waits in:
\* Ddot2 / vComm->AllReduce(vExchange, ReduceSum)
AllReduceSum(p) == RInt(SumSlots(Entered(p), NumProcs))

\* process p enters a collective and contributes v
Contribute(p, kind, v) ==
    /\ trace' = [trace EXCEPT ![p] = Append(@, kind)]
    /\ slot' = [slot EXCEPT ![p][(Entered(p) + 1) % 2] = v]

ParInit ==
    /\ nektarDebug \in BOOLEAN
    /\ procPc = [p \in Procs |-> "call"]
    /\ procK = [p \in Procs |-> 0]
    /\ slot = [p \in Procs |-> [c \in { 0, 1 } |-> 0]]
    /\ trace = [p \in Procs |-> << >>]
    /\ exited = [p \in Procs |-> << "none", 0 >>]

\* line 122: the process enters the reduction of the squared norm of r
EnterDdot2(p) ==
    /\ procPc[p] = "call"
    /\ \E v \in LocalParts : Contribute(p, "Ddot2", v)
    /\ procPc' = [procPc EXCEPT ![p] = "inDdot2"]
    /\ UNCHANGED << procK, exited >>

\* lines 123-127: the reduced norm is below the tolerance, the process returns
LeaveDdot2Zero(p) ==
    /\ procPc[p] = "inDdot2" /\ AllArrived(p)
    /\ FLess(AllReduceSum(p), kNekZeroTol)
    /\ procPc' = [procPc EXCEPT ![p] = "returned"]
    /\ exited' = [exited EXCEPT ![p] = << "zero", procK[p] >>]
    /\ UNCHANGED << procK, slot, trace >>

\* lines 123-130: the process enters the loop
LeaveDdot2(p) ==
    /\ procPc[p] = "inDdot2" /\ AllArrived(p)
    /\ ~FLess(AllReduceSum(p), kNekZeroTol)
    /\ procPc' = [procPc EXCEPT ![p] = "loop"]
    /\ UNCHANGED << procK, slot, trace, exited >>

\* lines 133-152: the local dot products, then the first reduction; the
\* counter is followed up to MaxIterations + 1
EnterAllReduce1(p) ==
    /\ procPc[p] = "loop"
    /\ procK[p] <= MaxIterations
    /\ \E v \in LocalParts : Contribute(p, "AllReduce", v)
    /\ procPc' = [procPc EXCEPT ![p] = "inAllReduce1"]
    /\ UNCHANGED << procK, exited >>

\* lines 155-164: alpha and the updates of the local vectors
LeaveAllReduce1(p) ==
    /\ procPc[p] = "inAllReduce1" /\ AllArrived(p)
    /\ procPc' = [procPc EXCEPT ![p] = "updated"]
    /\ UNCHANGED << procK, slot, trace, exited >>

\* lines 167-179: the local parts of beta and normsq, then the second
\* reduction
EnterAllReduce2(p) ==
    /\ procPc[p] = "updated"
    /\ \E v \in LocalParts : Contribute(p, "AllReduce", v)
    /\ procPc' = [procPc EXCEPT ![p] = "inAllReduce2"]
    /\ UNCHANGED << procK, exited >>

\* lines 182-189: the reduced norm is below the tolerance, the process
\* leaves the loop and returns
LeaveAllReduce2Converged(p) ==
    /\ procPc[p] = "inAllReduce2" /\ AllArrived(p)
    /\ Converged(AllReduceSum(p))
    /\ procPc' = [procPc EXCEPT ![p] = "returned"]
    /\ exited' = [exited EXCEPT ![p] = << "converged", procK[p] >>]
    /\ UNCHANGED << procK, slot, trace >>

\* lines 182-201: the process goes on with the next iteration, or raises
\* the fatal error of the assertion on k
LeaveAllReduce2(p) ==
    /\ procPc[p] = "inAllReduce2" /\ AllArrived(p)
    /\ ~Converged(AllReduceSum(p))
    /\ procK' = [procK EXCEPT ![p] = @ + 1]
    /\ IF AssertionFails(procK[p] + 1)
         THEN /\ procPc' = [procPc EXCEPT ![p] = "fatal"]
              /\ exited' = [exited EXCEPT ![p] = << "fatal", procK[p] + 1 >>]
         ELSE /\ procPc' = [procPc EXCEPT ![p] = "loop"]
              /\ UNCHANGED exited
    /\ UNCHANGED << slot, trace >>

ParNext ==
    /\ \E p \in Procs :
         \/ EnterDdot2(p)
         \/ LeaveDdot2Zero(p)
         \/ LeaveDdot2(p)
         \/ EnterAllReduce1(p)
         \/ LeaveAllReduce1(p)
         \/ EnterAllReduce2(p)
         \/ LeaveAllReduce2Converged(p)
         \/ LeaveAllReduce2(p)
    /\ UNCHANGED << nonSolverVars, cgVars, nsVars, lnsVars >>

InitCGPar ==
    /\ AsmIdle /\ CondIdle /\ CacheIdle /\ BlockIdle
    /\ CgOff /\ ParInit /\ NsIdle /\ LnsIdle /\ AuxIdle

SpecCGPar == InitCGPar /\ [][ParNext]_vars

IsPrefix(a, b) == Len(a) <= Len(b) /\ SubSeq(b, 1, Len(a)) = a

Done(p) == procPc[p] \in { "returned", "fatal" }

\* the collectives a process has entered when it is at a position of the
\* solve in iteration kk: one for the early exit, two for each iteration
CollectivesAt(pos, kk) ==
    CASE pos = "call" -> 0
      [] pos = "inDdot2" -> 1
      [] pos = "loop" -> 1 + 2 * kk
      [] pos = "inAllReduce1" -> 2 + 2 * kk
      [] pos = "updated" -> 2 + 2 * kk
      [] pos = "inAllReduce2" -> 3 + 2 * kk
      [] OTHER -> 0

\* C16: all processes of the communicator enter the same collective
\* reductions in the same order (one for the early-exit test, two in every
\* iteration) and take the same early-exit and convergence decisions in the
\* same iteration, so that no process waits in a reduction that another
\* process never enters.
C16_CollectivesAgree ==
    \A p, q \in Procs :
      /\ IsPrefix(trace[p], trace[q]) \/ IsPrefix(trace[q], trace[p])
      /\ ~Done(p) => Entered(p) = CollectivesAt(procPc[p], procK[p])
      /\ (Done(p) /\ Done(q)) => exited[p] = exited[q]
      /\ Done(p) => Entered(q) <= Entered(p)

\* every process has left the loop in its second iteration, after five
\* collectives, on the same reduced norm; the local parts the processes
\* contributed to the reduction before differ
C16_Witness ==
    /\ \A p \in Procs : exited[p] = << "converged", 1 >> /\ Entered(p) = 5
    /\ slot[1][0] # slot[2][0]

(***************************************************************************)
(* DriverStandard::v_Execute running the coupled linearised Navier-Stokes  *)
(* solver.  The coupled matrix system is represented by the lambda it was  *)
(* built with.                                                             *)
(***************************************************************************)
\* the implicit solves of one AdvanceInTime
MaxSteps == 3

\* mutant of ExecuteOrder: the solve runs before the initialisation
ExecuteOrderSolveFirst ==
    << "DoSolve", "DoInitialise", "PrintSummary", "Output" >>

\* the statements of v_Execute
ExecuteOrder == << "DoInitialise", "PrintSummary", "DoSolve", "Output" >>

UnsteadyTypes == { "eUnsteadyStokes", "eUnsteadyNavierStokes" }

SteadyTypes == { "eSteadyStokes", "eSteadyOseen", "eSteadyLinearisedNS" }

EquationTypes == UnsteadyTypes \cup SteadyTypes \cup { "eNoEquationType" }

\* the values of aii_Dt the time integration passes
AiiDts == { << 1, 1 >>, << 1, 2 >>, << 16, 1 >>, << 32, 1 >> }

\* the tolerance of the test on lambda: 1e-10 in the source, scaled to the
\* values of AiiDts
RebuildTol == << 1, 8 >>

FAbs(x) == IF IsFinite(x) THEN << Abs(x[1]), x[2] >> ELSE NonFinite

NoCoupledMatrix == [built |-> FALSE, lambda |-> RInt(0)]

\* SetUpCoupledMatrix(lambda): the matrices of m_mat are built for lambda
SetUpCoupledMatrix(lambda) == [built |-> TRUE, lambda |-> lambda]

\* fabs(lambda_store - lambda) > 1e-10
NeedsRebuild(store, lambda) == FLess(RebuildTol, FAbs(FSub(store, lambda)))

\* mutant of StoreAfterRebuild: lambda_store keeps its value
StoreAfterRebuildStale(store, lambda) == store

\* lambda_store = lambda
StoreAfterRebuild(store, lambda) == lambda

\* the record of a call of SolveLinearNS
SolveRecord(kind, lambda, before, rebuilt, mat) ==
    [kind |-> kind, lambda |-> lambda, before |-> before, rebuilt |-> rebuilt,
     mat |-> mat, initialised |-> initialised]

DriverInit ==
    /\ drvStep = 1
    /\ drvPc = "run"
    /\ m_equationType \in EquationTypes
    /\ m_mat = NoCoupledMatrix
    /\ lambda_store = RInt(0)
    /\ stepsLeft = 0
    /\ initialised = FALSE
    /\ nsLog = << >>

Running(stmt) ==
    /\ drvPc = "run"
    /\ drvStep <= Len(ExecuteOrder)
    /\ ExecuteOrder[drvStep] = stmt

\* m_equ[0]->DoInitialise(): the unsteady cases fall through to the
\* SetUpCoupledMatrix() of eSteadyStokes
DoInitialise ==
    /\ Running("DoInitialise")
    /\ m_equationType \in UnsteadyTypes \cup SteadyTypes
    /\ m_mat' = SetUpCoupledMatrix(RInt(0))
    /\ initialised' = TRUE
    /\ drvStep' = drvStep + 1
    /\ UNCHANGED << drvPc, m_equationType, lambda_store, stepsLeft, nsLog >>
    /\ UNCHANGED << nonSolverVars, cgVars, parVars, lnsVars >>

\* ASSERTL0(false, "Unknown or undefined equation type ...")
DoInitialiseFails ==
    /\ Running("DoInitialise")
    /\ m_equationType = "eNoEquationType"
    /\ drvPc' = "fatal"
    /\ UNCHANGED << drvStep, m_equationType, m_mat, lambda_store, stepsLeft,
                    initialised, nsLog >>
    /\ UNCHANGED << nonSolverVars, cgVars, parVars, lnsVars >>

PrintSummary ==
    /\ Running("PrintSummary")
    /\ drvStep' = drvStep + 1
    /\ UNCHANGED << drvPc, m_equationType, m_mat, lambda_store, stepsLeft,
                    initialised, nsLog >>
    /\ UNCHANGED << nonSolverVars, cgVars, parVars, lnsVars >>

\* m_equ[0]->DoSolve(): AdvanceInTime(m_steps) begins, or Solve() calls
\* SolveLinearNS, or the equation type is unknown
DoSolve ==
    /\ Running("DoSolve")
    /\ IF m_equationType \in UnsteadyTypes
         THEN /\ drvPc' = "advance"
              /\ stepsLeft' \in 1..MaxSteps
              /\ UNCHANGED << drvStep, nsLog >>
       ELSE IF m_equationType \in SteadyTypes
         THEN /\ nsLog' = Append(nsLog,
                            SolveRecord("steady", RInt(0), m_mat, FALSE, m_mat))
              /\ drvStep' = drvStep + 1
              /\ UNCHANGED << drvPc, stepsLeft >>
       ELSE /\ drvPc' = "fatal"
            /\ UNCHANGED << drvStep, stepsLeft, nsLog >>
    /\ UNCHANGED << m_equationType, m_mat, lambda_store, initialised >>
    /\ UNCHANGED << nonSolverVars, cgVars, parVars, lnsVars >>

\* SolveUnsteadyStokesSystem(inarray, outarray, time, aii_Dt)
SolveUnsteadyStokesSystem ==
    /\ drvPc = "advance" /\ stepsLeft > 0
    /\ \E aii_Dt \in AiiDts :
         LET lambda == FDiv(RInt(1), aii_Dt)
             rebuild == NeedsRebuild(lambda_store, lambda)
         IN  /\ m_mat' = IF rebuild THEN SetUpCoupledMatrix(lambda) ELSE m_mat
             /\ lambda_store' = IF rebuild
                                  THEN StoreAfterRebuild(lambda_store, lambda)
                                ELSE lambda_store
             /\ nsLog' = Append(nsLog,
                           SolveRecord("unsteady", lambda, m_mat, rebuild, m_mat'))
    /\ stepsLeft' = stepsLeft - 1
    /\ UNCHANGED << drvStep, drvPc, m_equationType, initialised >>
    /\ UNCHANGED << nonSolverVars, cgVars, parVars, lnsVars >>

\* AdvanceInTime returns
EndAdvance ==
    /\ drvPc = "advance" /\ stepsLeft = 0
    /\ drvPc' = "run"
    /\ drvStep' = drvStep + 1
    /\ UNCHANGED << m_equationType, m_mat, lambda_store, stepsLeft,
                    initialised, nsLog >>
    /\ UNCHANGED << nonSolverVars, cgVars, parVars, lnsVars >>

Output ==
    /\ Running("Output")
    /\ drvStep' = drvStep + 1
    /\ UNCHANGED << drvPc, m_equationType, m_mat, lambda_store, stepsLeft,
                    initialised, nsLog >>
    /\ UNCHANGED << nonSolverVars, cgVars, parVars, lnsVars >>

DriverNext ==
    \/ DoInitialise
    \/ DoInitialiseFails
    \/ PrintSummary
    \/ DoSolve
    \/ SolveUnsteadyStokesSystem
    \/ EndAdvance
    \/ Output

InitDriver ==
    /\ AsmIdle /\ CondIdle /\ CacheIdle /\ BlockIdle
    /\ CgIdle /\ ParIdle /\ DriverInit /\ LnsIdle /\ AuxIdle

SpecDriver == InitDriver /\ [][DriverNext]_vars

UnsteadyCalls == { i \in 1..Len(nsLog) : nsLog[i].kind = "unsteady" }

nvel == 2

\* GetNumGlobalCoeffs() of the coupled map
NumGlobalCoeffs == 4

\* nbnd of element e: nz_loc*NumBndryCoeffs()
NBnd(e) == nz_loc * numBndry[e]

RECURSIVE LocalOffset(_)
\* the offset of element e in the coupled map: the boundary coefficients of
\* the velocities and the pressure coefficients of the elements before it
LocalOffset(e) ==
    IF e = 0 THEN 0
    ELSE LocalOffset(e - 1) + nvel * NBnd(e - 1) + presCoeffs[e - 1] * nz_loc

RECURSIVE BndOffset(_)
\* the offset of element e in f_bnd
BndOffset(e) == IF e = 0 THEN 0 ELSE BndOffset(e - 1) + nvel * NBnd(e - 1)

\* the maps of the model: local coefficient l goes to (stride*l + shift)
\* modulo the number of global coefficients, with signs +1 or alternating
\* from one run of NumGlobalCoeffs local coefficients to the next
MapStrides == { 1, 3 }

MapShifts == { 0, 1 }

SignPatterns == { "plus", "alternate" }

\* the solutions the solve of the boundary system may return
Solutions ==
    { [g \in Idx(NumGlobalCoeffs) |-> g + 1],
      [g \in Idx(NumGlobalCoeffs) |-> -(2 * g + 1)] }

LnsInit ==
    /\ nz_loc \in { 1, 2 }
    /\ numBndry \in [Idx(NumExp) -> { 1, 2 }]
    /\ presCoeffs \in [Idx(NumExp) -> { 1 }]
    /\ \E st \in MapStrides, sh \in MapShifts :
         loctoglomap = [l \in Idx(LocalOffset(NumExp)) |->
                          (st * l + sh) % NumGlobalCoeffs]
    /\ \E pat \in SignPatterns :
         loctoglosign = [l \in Idx(LocalOffset(NumExp)) |->
                           IF pat = "alternate" /\ (l \div NumGlobalCoeffs) % 2 = 1
                             THEN -1
                           ELSE 1]
    /\ f_bnd = [c \in Idx(BndOffset(NumExp)) |-> 10 + c]
    /\ fh_bnd = [g \in Idx(NumGlobalCoeffs) |-> 0]
    /\ bnd = [g \in Idx(NumGlobalCoeffs) |-> 0]
    /\ lnsPc = "assemble"
    /\ lnsElmt = 0 /\ lnsCnt = 0 /\ lnsOffset = 0

\* fh_bnd[loctoglomap[l]] += loctoglosign[l]*f_bnd[c] for the nn pairs
\* (l + k, c + k), k from from
RECURSIVE AssembleRun(_, _, _, _, _)
AssembleRun(fh, l, c, nn, from) ==
    IF from >= nn THEN fh
    ELSE AssembleRun(
           [fh EXCEPT ![loctoglomap[l + from]] =
              @ + loctoglosign[l + from] * f_bnd[c + from]],
           l, c, nn, from + 1)

\* lines 1582-1599 for element i: the loops over j and k
AssembleElmtForcing(fh, i) ==
    AssembleRun(fh, lnsOffset, lnsCnt, nvel * NBnd(i), 0)

AssembleElmt ==
    /\ lnsPc = "assemble" /\ lnsElmt < NumExp
    /\ fh_bnd' = AssembleElmtForcing(fh_bnd, lnsElmt)
    /\ lnsCnt' = lnsCnt + nvel * NBnd(lnsElmt)
    /\ lnsOffset' = lnsOffset + nvel * NBnd(lnsElmt) + presCoeffs[lnsElmt] * nz_loc
    /\ lnsElmt' = lnsElmt + 1
    /\ lnsPc' = IF lnsElmt + 1 = NumExp THEN "solve" ELSE "assemble"
    /\ UNCHANGED << nz_loc, numBndry, presCoeffs, loctoglomap, loctoglosign,
                    f_bnd, bnd >>
    /\ UNCHANGED << nonSolverVars, cgVars, parVars, nsVars >>

\* m_mat[mode].m_CoupledBndSys->Solve(fh_bnd, bnd, m_locToGloMap[mode]), then
\* offset = cnt = 0
CoupledBndSysSolve ==
    /\ lnsPc = "solve"
    /\ bnd' \in Solutions
    /\ lnsPc' = "unpack"
    /\ lnsElmt' = 0 /\ lnsCnt' = 0 /\ lnsOffset' = 0
    /\ UNCHANGED << nz_loc, numBndry, presCoeffs, loctoglomap, loctoglosign,
                    f_bnd, fh_bnd >>
    /\ UNCHANGED << nonSolverVars, cgVars, parVars, nsVars >>

\* mutant of UnpackValue: the value is added to the coefficient
UnpackValueAccumulated(old, sgn, val) == old + sgn * val

\* f_bnd[cnt+k] = loctoglosign[...]*bnd[loctoglomap[...]]
UnpackValue(old, sgn, val) == sgn * val

\* lines 1679-1686 for element i: the loops over j and k
UnpackElmtCoeffs(f, i) ==
    [c \in DOMAIN f |->
       IF c >= lnsCnt /\ c < lnsCnt + nvel * NBnd(i)
         THEN UnpackValue(f[c], loctoglosign[lnsOffset + (c - lnsCnt)],
                          bnd[loctoglomap[lnsOffset + (c - lnsCnt)]])
       ELSE f[c]]

UnpackElmt ==
    /\ lnsPc = "unpack" /\ lnsElmt < NumExp
    /\ f_bnd' = UnpackElmtCoeffs(f_bnd, lnsElmt)
    /\ lnsCnt' = lnsCnt + nvel * NBnd(lnsElmt)
    /\ lnsOffset' = lnsOffset + nvel * NBnd(lnsElmt) + presCoeffs[lnsElmt] * nz_loc
    /\ lnsElmt' = lnsElmt + 1
    /\ lnsPc' = IF lnsElmt + 1 = NumExp THEN "done" ELSE "unpack"
    /\ UNCHANGED << nz_loc, numBndry, presCoeffs, loctoglomap, loctoglosign,
                    fh_bnd, bnd >>
    /\ UNCHANGED << nonSolverVars, cgVars, parVars, nsVars >>

LnsNext ==
    \/ AssembleElmt
    \/ CoupledBndSysSolve
    \/ UnpackElmt

InitLNS ==
    /\ AsmIdle /\ CondIdle /\ CacheIdle /\ BlockIdle
    /\ CgIdle /\ ParIdle /\ NsIdle /\ LnsInit /\ AuxIdle

SpecLNS == InitLNS /\ [][LnsNext]_vars

\* the local coefficients (element, velocity, k) of the elements before e
UnpackedBefore(e) ==
    { ejk \in Idx(NumExp) \X Idx(nvel) \X Idx(2 * 2) :
        ejk[1] < e /\ ejk[3] < NBnd(ejk[1]) }

\* C20: after the global boundary solve, each local boundary coefficient of
\* each element is the sign of its map entry times the global solution at
\* its map entry: a shared global value is distributed to every element
\* that touches it, not accumulated.
C20_SolutionDistributed ==
    lnsPc \in { "unpack", "done" } =>
      \A ejk \in UnpackedBefore(lnsElmt) :
        LET e == ejk[1]
            l == LocalOffset(e) + ejk[2] * NBnd(e) + ejk[3]
            c == BndOffset(e) + ejk[2] * NBnd(e) + ejk[3]
        IN  f_bnd[c] = loctoglosign[l] * bnd[loctoglomap[l]]

\* every element is unpacked, and a global coefficient that both elements
\* touch has given its value to both, once with each sign
C20_Witness ==
    /\ lnsPc = "done"
    /\ \E a \in UnpackedBefore(1), b \in UnpackedBefore(NumExp) :
         LET la == LocalOffset(a[1]) + a[2] * NBnd(a[1]) + a[3]
             lb == LocalOffset(b[1]) + b[2] * NBnd(b[1]) + b[3]
             ca == BndOffset(a[1]) + a[2] * NBnd(a[1]) + a[3]
             cb == BndOffset(b[1]) + b[2] * NBnd(b[1]) + b[3]
         IN  /\ b[1] > a[1]
             /\ loctoglomap[la] = loctoglomap[lb]
             /\ loctoglosign[la] = 1 /\ loctoglosign[lb] = -1
             /\ f_bnd[ca] = bnd[loctoglomap[la]]
             /\ f_bnd[cb] = -bnd[loctoglomap[la]]

MaxRequests == 2

\* matrix types a key can carry
RequestMatrixTypes ==
    BlockMatrixTypes \cup {"eLinearAdvection", "eHybridDGHelmBndLam"}

\* the solution types of the cases of the switch of GenGlobalLinSys
LinSysSolnTypes ==
    {"eDirectFullMatrix", "eDirectStaticCond", "eDirectMultiLevelStaticCond"}

\* solution types a key or a map can carry
GlobalSysSolnTypes == LinSysSolnTypes \cup {"eIterativeFull", "eNoSolnType"}

StorageTypes == {"eFULL", "eDIAGONAL", "eSYMMETRIC"}

Returns(obj) == [outcome |-> "returned", msg |-> "", object |-> obj]

\* NEKERROR(ErrorUtil::efatal, msg) and a failed ASSERTL0: no value is
\* returned
Fatal(msg) == [outcome |-> "fatal", msg |-> msg, object |-> "none"]

\* the switch of GenBlockMatrix
GenBlockMatrixSwitch(ty) ==
    IF ty \in BlockMatrixTypes
    THEN Returns("DNekScalBlkMat")
    ELSE Fatal("Global Matrix creation not defined for this type of matrix")

\* the switch of GenGlobalMatrix
GenGlobalMatrixSwitch(ty) ==
    IF ty \in GlobalMatrixTypes
    THEN Returns("GlobalMatrix")
    ELSE Fatal("Global Matrix creation not defined for this type of matrix")

\* the level 1 assertion on the solution type of the map
MapAssertionFails(soln, mapSoln) == nektarDebug /\ ~(mapSoln = soln)

\* mutant of GenGlobalLinSys: the default case returns the empty pointer
GenGlobalLinSysNoDefault(soln, mapSoln) ==
    IF soln \in LinSysSolnTypes
    THEN Returns("GlobalLinSys")
    ELSE Returns("null")

\* the switch of GenGlobalLinSys
GenGlobalLinSys(soln, mapSoln) ==
    CASE soln = "eDirectFullMatrix" -> Returns("GlobalLinSys")
      [] soln \in {"eDirectStaticCond", "eDirectMultiLevelStaticCond"} ->
           IF MapAssertionFails(soln, mapSoln)
           THEN Fatal("The local to global map is not set up for this solution type")
           ELSE Returns("GlobalLinSys")
      [] OTHER -> Fatal("Matrix solution type not defined")

\* NekMultiplyEqual(result, rhs): the product is stored in result
NekMultiplyEqual(resultType, rhsType) ==
    IF resultType = "eFULL" /\ rhsType = "eFULL"
    THEN Returns("product")
    ELSE Fatal("Only full matrices supported.")

ReqInit ==
    /\ reqLog = << >>
    /\ reqPc = "run"

\* the log with the request and its outcome
Logged(rt, kind, res) ==
    Append(reqLog, [routine |-> rt, kind |-> kind, outcome |-> res.outcome,
                    msg |-> res.msg, object |-> res.object])

\* a fatal error ends the run
PcAfter(res) == IF res.outcome = "fatal" THEN "fatal" ELSE "run"

RequestBlockMatrix ==
    /\ reqPc = "run"
    /\ Len(reqLog) < MaxRequests
    /\ \E ty \in RequestMatrixTypes :
         /\ reqLog' = Logged("GenBlockMatrix", << ty >>, GenBlockMatrixSwitch(ty))
         /\ reqPc' = PcAfter(GenBlockMatrixSwitch(ty))
    /\ UNCHANGED nonReqVars

RequestGlobalMatrix ==
    /\ reqPc = "run"
    /\ Len(reqLog) < MaxRequests
    /\ \E ty \in RequestMatrixTypes :
         /\ reqLog' = Logged("GenGlobalMatrix", << ty >>, GenGlobalMatrixSwitch(ty))
         /\ reqPc' = PcAfter(GenGlobalMatrixSwitch(ty))
    /\ UNCHANGED nonReqVars

RequestGlobalLinSys ==
    /\ reqPc = "run"
    /\ Len(reqLog) < MaxRequests
    /\ \E soln \in GlobalSysSolnTypes, mapSoln \in LinSysSolnTypes :
         /\ reqLog' = Logged("GenGlobalLinSys", << soln, mapSoln >>,
                             GenGlobalLinSys(soln, mapSoln))
         /\ reqPc' = PcAfter(GenGlobalLinSys(soln, mapSoln))
    /\ UNCHANGED nonReqVars

RequestMultiplyEqual ==
    /\ reqPc = "run"
    /\ Len(reqLog) < MaxRequests
    /\ \E a \in StorageTypes, b \in StorageTypes :
         /\ reqLog' = Logged("NekMultiplyEqual", << a, b >>, NekMultiplyEqual(a, b))
         /\ reqPc' = PcAfter(NekMultiplyEqual(a, b))
    /\ UNCHANGED nonReqVars

ReqNext ==
    \/ RequestBlockMatrix
    \/ RequestGlobalMatrix
    \/ RequestGlobalLinSys
    \/ RequestMultiplyEqual

InitRequest ==
    /\ AsmIdle /\ CondIdle /\ CacheIdle /\ BlockIdle
    /\ CgOff /\ nektarDebug \in BOOLEAN /\ ParIdle /\ NsIdle /\ LnsIdle
    /\ ReqInit /\ FoldIdle /\ VecIdle /\ EquIdle /\ OrdIdle /\ VwiIdle /\ PoolIdle

SpecRequest == InitRequest /\ [][ReqNext]_vars

\* the request names a type none of the routine's cases handles
Unsupported(q) ==
    \/ q.routine = "GenBlockMatrix" /\
         q.kind[1] \in {"eLinearAdvection", "eHybridDGHelmBndLam"}
    \/ q.routine = "GenGlobalMatrix" /\
         q.kind[1] \in {"eInvMass", "eInvHybridDGHelmholtz", "eHybridDGLamToU",
                        "eLinearAdvection", "eHybridDGHelmBndLam"}
    \/ q.routine = "GenGlobalLinSys" /\ q.kind[1] \in {"eIterativeFull", "eNoSolnType"}
    \/ q.routine = "NekMultiplyEqual" /\ (q.kind[1] # "eFULL" \/ q.kind[2] # "eFULL")

MaxBndryCoeffs == 2
\* largest GetNcoeffs() of the pressure expansion of the element
MaxPsize == 3

ZeroMatrix(rows, cols) == [rc \in Coords(rows, cols) |-> 0]

\* the plane of a pressure coefficient
PlaneOf(q, psize) == q \div psize

\* -DintCinvDTint, BCinvDTint_m_DTbnd, DintCinvBTtilde_m_Dbnd and the
\* velocity block of Ah carry entries that differ from each other; the
\* planes are coupled (advection along the homogeneous direction) or not
FirstLevel(nz, psize, nbndry, coupled, scale) ==
    [nz_loc |-> nz, psize |-> psize,
     nsize_bndry |-> nbndry, nsize_bndry_p1 |-> nbndry + nz,
     nsize_p |-> psize * nz, nsize_p_m1 |-> psize * nz - nz,
     DintCinvDTint |->
        [rc \in Coords(psize * nz, psize * nz) |->
           IF coupled \/ PlaneOf(rc[1], psize) = PlaneOf(rc[2], psize)
           THEN scale * (100 + 10 * rc[1] + rc[2]) ELSE 0],
     BCinvDTint_m_DTbnd |->
        [rc \in Coords(nbndry, psize * nz) |-> scale * (200 + 10 * rc[1] + rc[2])],
     DintCinvBTtilde_m_Dbnd |->
        [rc \in Coords(psize * nz, nbndry) |-> scale * (300 + 10 * rc[1] + rc[2])],
     A0 |-> [rc \in Coords(nbndry, nbndry) |-> scale * (400 + 10 * rc[1] + rc[2])]]

FoldInit ==
    /\ \E nz \in {1, 2}, psize \in 2..MaxPsize, nb \in 1..MaxBndryCoeffs,
          coupled \in BOOLEAN, scale \in {1, -1} :
         /\ nz = 1 => ~coupled
         /\ foldIn = FirstLevel(nz, psize, nvel * nb * nz, coupled, scale)
    /\ Ah = [rc \in Coords(foldIn.nsize_bndry_p1, foldIn.nsize_bndry_p1) |->
               IF rc \in DOMAIN foldIn.A0 THEN foldIn.A0[rc] ELSE 0]
    /\ Bh = << >> /\ Ch = << >> /\ Dh = << >>
    /\ foldPc = "start"

\* the pairs (n1, j) of a plane and an interior pressure mode
PlaneModes(nz, psize) == Idx(nz) \X Idx(psize - 1)

\* Bh, Ch and Dh are allocated with zeros
AllocateFinal ==
    /\ foldPc = "start"
    /\ Bh' = ZeroMatrix(foldIn.nsize_bndry_p1, foldIn.nsize_p_m1)
    /\ Ch' = ZeroMatrix(foldIn.nsize_p_m1, foldIn.nsize_bndry_p1)
    /\ Dh' = ZeroMatrix(foldIn.nsize_p_m1, foldIn.nsize_p_m1)
    /\ foldPc' = "dh"
    /\ UNCHANGED << foldIn, Ah >>
    /\ UNCHANGED nonFoldVars

\* (*Dh)(i+n1*(psize-1), j+n2*(psize-1)) = -DintCinvDTint(i+1+n1*psize, j+1+n2*psize)
CopyDh ==
    /\ foldPc = "dh"
    /\ LET psize == foldIn.psize
       IN  Dh' = [rc \in DOMAIN Dh |->
                    LET n1 == rc[1] \div (psize - 1)
                        i  == rc[1] % (psize - 1)
                        n2 == rc[2] \div (psize - 1)
                        j  == rc[2] % (psize - 1)
                    IN  -foldIn.DintCinvDTint[<< i + 1 + n1 * psize, j + 1 + n2 * psize >>]]
    /\ foldPc' = "border"
    /\ UNCHANGED << foldIn, Ah, Bh, Ch >>
    /\ UNCHANGED nonFoldVars

\* (*Ah)(i, nsize_bndry_p1-nz_loc+n1) = BCinvDTint_m_DTbnd(i, n1*psize) and
\* (*Ah)(nsize_bndry_p1-nz_loc+n1, i) = DintCinvBTtilde_m_Dbnd(n1*psize, i)
CopyAhBorder ==
    /\ foldPc = "border"
    /\ LET psize == foldIn.psize
           nb    == foldIn.nsize_bndry_p1 - foldIn.nz_loc
       IN  Ah' = [rc \in DOMAIN Ah |->
                    IF rc[1] < nb /\ rc[2] >= nb
                    THEN foldIn.BCinvDTint_m_DTbnd[<< rc[1], (rc[2] - nb) * psize >>]
                    ELSE IF rc[1] >= nb /\ rc[2] < nb
                    THEN foldIn.DintCinvBTtilde_m_Dbnd[<< (rc[1] - nb) * psize, rc[2] >>]
                    ELSE Ah[rc]]
    /\ foldPc' = "corner"
    /\ UNCHANGED << foldIn, Bh, Ch, Dh >>
    /\ UNCHANGED nonFoldVars

\* (*Ah)(nsize_bndry_p1-nz_loc+n1, nsize_bndry_p1-nz_loc+n2) = -DintCinvDTint(n1*psize, n2*psize)
CopyAhCorner ==
    /\ foldPc = "corner"
    /\ LET psize == foldIn.psize
           nb    == foldIn.nsize_bndry_p1 - foldIn.nz_loc
       IN  Ah' = [rc \in DOMAIN Ah |->
                    IF rc[1] >= nb /\ rc[2] >= nb
                    THEN -foldIn.DintCinvDTint[<< (rc[1] - nb) * psize, (rc[2] - nb) * psize >>]
                    ELSE Ah[rc]]
    /\ foldPc' = "bhch"
    /\ UNCHANGED << foldIn, Bh, Ch, Dh >>
    /\ UNCHANGED nonFoldVars

\* -DintCinvDTint(row, col), written for the mean mode of plane n1 and the
\* interior modes of the same plane n1
MeanModeEntry(n1, row, col) == -foldIn.DintCinvDTint[<< row, col >>]

\* the last loop nest: the rows of Bh and the columns of Ch
CopyBhCh ==
    /\ foldPc = "bhch"
    /\ LET psize == foldIn.psize
           nb    == foldIn.nsize_bndry_p1 - foldIn.nz_loc
       IN  /\ Bh' = [rc \in DOMAIN Bh |->
                       LET n1 == rc[2] \div (psize - 1)
                           j  == rc[2] % (psize - 1)
                       IN  IF rc[1] < nb
                           THEN foldIn.BCinvDTint_m_DTbnd[<< rc[1], j + 1 + n1 * psize >>]
                           ELSE IF rc[1] = nb + n1
                           THEN MeanModeEntry(n1, n1 * psize, j + 1 + n1 * psize)
                           ELSE Bh[rc]]
           /\ Ch' = [rc \in DOMAIN Ch |->
                       LET n1 == rc[1] \div (psize - 1)
                           j  == rc[1] % (psize - 1)
                       IN  IF rc[2] < nb
                           THEN foldIn.DintCinvBTtilde_m_Dbnd[<< j + 1 + n1 * psize, rc[2] >>]
                           ELSE IF rc[2] = nb + n1
                           THEN MeanModeEntry(n1, j + 1 + n1 * psize, n1 * psize)
                           ELSE Ch[rc]]
    /\ foldPc' = "copied"
    /\ UNCHANGED << foldIn, Ah, Dh >>
    /\ UNCHANGED nonFoldVars

FoldNext ==
    \/ AllocateFinal
    \/ CopyDh
    \/ CopyAhBorder
    \/ CopyAhCorner
    \/ CopyBhCh

InitFold ==
    /\ AsmIdle /\ CondIdle /\ CacheIdle /\ BlockIdle
    /\ CgIdle /\ ParIdle /\ NsIdle /\ LnsIdle
    /\ ReqIdle /\ FoldInit /\ VecIdle /\ EquIdle /\ OrdIdle /\ VwiIdle /\ PoolIdle

SpecFold == InitFold /\ [][FoldNext]_vars

\* the first-level system over the velocity boundary modes followed by the
\* pressure modes
FirstLevelEntry(r, c) ==
    LET nb == foldIn.nsize_bndry
    IN  IF r < nb /\ c < nb THEN foldIn.A0[<< r, c >>]
        ELSE IF r < nb THEN foldIn.BCinvDTint_m_DTbnd[<< r, c - nb >>]
        ELSE IF c < nb THEN foldIn.DintCinvBTtilde_m_Dbnd[<< r - nb, c >>]
        ELSE -foldIn.DintCinvDTint[<< r - nb, c - nb >>]

\* the position of a first-level index once mode 0 of each plane is moved
\* to the end of the boundary block
Permuted(r) ==
    LET nb == foldIn.nsize_bndry
        q  == r - nb
        n1 == q \div foldIn.psize
        i  == q % foldIn.psize
    IN  IF r < nb THEN r
        ELSE IF i = 0 THEN nb + n1
        ELSE foldIn.nsize_bndry_p1 + (i - 1) + n1 * (foldIn.psize - 1)

\* the entry of the block system Ah, Bh; Ch, Dh
FinalEntry(r, c) ==
    LET k == foldIn.nsize_bndry_p1
    IN  IF r < k /\ c < k THEN Ah[<< r, c >>]
        ELSE IF r < k THEN Bh[<< r, c - k >>]
        ELSE IF c < k THEN Ch[<< r - k, c >>]
        ELSE Dh[<< r - k, c - k >>]

(***************************************************************************)
(* C23: once the copy loops have run (before Dh is inverted), the boundary *)
(* block has nsize_bndry + nz_loc rows, the interior pressure block        *)
(* nsize_p - nz_loc, and every entry of the first-level velocity-boundary/ *)
(* pressure system stands at its permuted position in Ah, Bh, Ch, Dh, the  *)
(* permutation moving pressure mode 0 of each plane to the end of the      *)
(* boundary block.                                                         *)
(***************************************************************************)
C23_FoldIsReindexing ==
    foldPc = "copied" =>
      LET size == foldIn.nsize_bndry + foldIn.nsize_p
      IN  /\ DOMAIN Ah = Coords(foldIn.nsize_bndry + foldIn.nz_loc,
                                foldIn.nsize_bndry + foldIn.nz_loc)
          /\ DOMAIN Dh = Coords(foldIn.nsize_p - foldIn.nz_loc,
                                foldIn.nsize_p - foldIn.nz_loc)
          /\ { Permuted(r) : r \in Idx(size) } = Idx(size)
          /\ \A r \in Idx(size), c \in Idx(size) :
                FinalEntry(Permuted(r), Permuted(c)) = FirstLevelEntry(r, c)

\* two coupled planes have been copied: the entry between the mean mode of
\* plane 0 and an interior pressure mode of plane 1 is not zero in the
\* first-level system
C23_Witness ==
    /\ foldPc = "copied"
    /\ foldIn.nz_loc = 2
    /\ FirstLevelEntry(foldIn.nsize_bndry, foldIn.nsize_bndry + foldIn.psize + 1) # 0

(***************************************************************************)
(* NekVector built over an array view, as TestNekVector.cpp exercises it   *)
(* and as v_SolveLinearSystem uses it: Array<OneD> views share the storage *)
(* of the array; a vector built with eWrapper shares it as well, a vector  *)
(* built without the flag owns a copy.                                     *)
(***************************************************************************)
\* the number of elements of the underlying array
ArraySize == 4
\* the writes of a run
MaxWrites == 2

\* the values written: testVector[0] = 9.9
WrittenValues == {9, 0}

NoView == [start |-> -1]

NoVector == [built |-> FALSE, wrapper |-> FALSE, shares |-> FALSE, size |-> 0,
             start |-> 0, data |-> << >>]

\* offset[i], for a view offset = out + k
ViewRead(v, i) == buf[v.start + i]

\* mutant of SharesStorage: the vector always owns a copy of the data
SharesStorageNever(flag) == flag /\ ~flag

\* the vector shares the storage of the array it is built over when the
\* wrapper flag is given
SharesStorage(flag) == flag

\* NekVector<NekDouble>(n, view) and NekVector<NekDouble>(n, view, eWrapper)
NekVector(nn, v, flag) ==
    [built |-> TRUE, wrapper |-> flag, shares |-> SharesStorage(flag), size |-> nn,
     start |-> v.start,
     data |-> IF SharesStorage(flag) THEN << >>
              ELSE [i \in Idx(nn) |-> ViewRead(v, i)]]

GetDimension(v) == v.size

\* v[i]
VecRead(v, i) == IF v.shares THEN buf[v.start + i] ELSE v.data[i]

VecInit ==
    /\ buf = [i \in Idx(ArraySize) |-> i + 1]
    /\ arrView = NoView
    /\ nekVec = NoVector
    /\ vecLog = << >>

\* offset = out + k, the view the vector is then built over
AssignOffset ==
    /\ \E kk \in Idx(ArraySize) : arrView' = [start |-> kk]
    /\ nekVec.built = FALSE
    /\ UNCHANGED << buf, nekVec, vecLog >>
    /\ UNCHANGED nonVecVars

\* the vector is constructed over the view with a size the view can hold
ConstructVector ==
    /\ arrView # NoView
    /\ nekVec.built = FALSE
    /\ \E nn \in 1..(ArraySize - arrView.start), flag \in BOOLEAN :
         nekVec' = NekVector(nn, arrView, flag)
    /\ UNCHANGED << buf, arrView, vecLog >>
    /\ UNCHANGED nonVecVars

\* testVector[i] = x
WriteVector ==
    /\ nekVec.built
    /\ Len(vecLog) < MaxWrites
    /\ \E i \in Idx(nekVec.size), x \in WrittenValues :
         /\ IF nekVec.shares
            THEN /\ buf' = [buf EXCEPT ![nekVec.start + i] = x]
                 /\ UNCHANGED nekVec
            ELSE /\ nekVec' = [nekVec EXCEPT !.data[i] = x]
                 /\ UNCHANGED buf
         /\ vecLog' = Append(vecLog, [via |-> "vector", index |-> i, value |-> x])
    /\ UNCHANGED arrView
    /\ UNCHANGED nonVecVars

\* out[j] = x, through the array
WriteArray ==
    /\ nekVec.built
    /\ Len(vecLog) < MaxWrites
    /\ \E j \in Idx(ArraySize), x \in WrittenValues :
         /\ buf' = [buf EXCEPT ![j] = x]
         /\ vecLog' = Append(vecLog, [via |-> "array", index |-> j, value |-> x])
    /\ UNCHANGED << arrView, nekVec >>
    /\ UNCHANGED nonVecVars

VecNext ==
    \/ AssignOffset
    \/ ConstructVector
    \/ WriteVector
    \/ WriteArray

InitVec ==
    /\ AsmIdle /\ CondIdle /\ CacheIdle /\ BlockIdle
    /\ CgIdle /\ ParIdle /\ NsIdle /\ LnsIdle
    /\ ReqIdle /\ FoldIdle /\ VecInit /\ EquIdle /\ OrdIdle /\ VwiIdle /\ PoolIdle

SpecVec == InitVec /\ [][VecNext]_vars

(***************************************************************************)
(* C24: a vector built in wrapper mode over the view that starts at offset *)
(* k, with size n, has dimension n and its element i is the element k+i of *)
(* the underlying array, for all i < n and after every write: a value      *)
(* written through the vector to element i is read back from the vector,   *)
(* from the view at i and from the array at k+i.  A vector built from the  *)
(* view without the flag has the dimension n and, until something is       *)
(* written, the same values.                                               *)
(***************************************************************************)
C24_WrapperAliasesView ==
    nekVec.built =>
      /\ GetDimension(nekVec) \in 1..(ArraySize - arrView.start)
      /\ nekVec.start = arrView.start
      /\ nekVec.wrapper =>
           /\ \A i \in Idx(GetDimension(nekVec)) :
                /\ VecRead(nekVec, i) = buf[arrView.start + i]
                /\ VecRead(nekVec, i) = ViewRead(arrView, i)
           /\ (vecLog # << >> /\ vecLog[Len(vecLog)].via = "vector") =>
                LET w == vecLog[Len(vecLog)]
                IN  /\ VecRead(nekVec, w.index) = w.value
                    /\ ViewRead(arrView, w.index) = w.value
                    /\ buf[arrView.start + w.index] = w.value
      /\ (~nekVec.wrapper /\ vecLog = << >>) =>
           \A i \in Idx(GetDimension(nekVec)) :
              VecRead(nekVec, i) = buf[arrView.start + i]

\* the case of the unit test: a wrapper over a view that starts inside the
\* array, written at its element 0
C24_Witness ==
    /\ nekVec.built /\ nekVec.wrapper
    /\ arrView.start = 2 /\ GetDimension(nekVec) = 2
    /\ vecLog # << >>
    /\ vecLog[Len(vecLog)] = [via |-> "vector", index |-> 0, value |-> 9]
    /\ buf[2] = 9

(***************************************************************************)
(* Several CoupledLinearNS objects in one process.  lambda_store is a      *)
(* static local variable of SolveUnsteadyStokesSystem: the process has one *)
(* lambda_store, every object has its own coupled matrix.                  *)
(***************************************************************************)
\* the solver objects of the process
NumSolvers == 2
\* the implicit solves of a run, over all objects
MaxImplicitSolves == 3

Solvers == 1..NumSolvers

EquInit ==
    /\ equ = [o \in Solvers |-> NoCoupledMatrix]
    /\ equLog = << >>
    /\ lambda_store = RInt(0)

\* v_DoInitialise of an unsteady equation type, which falls through to
\* SetUpCoupledMatrix()
InitialiseSolver ==
    /\ \E o \in Solvers :
         /\ equ[o] = NoCoupledMatrix
         /\ equ' = [equ EXCEPT ![o] = SetUpCoupledMatrix(RInt(0))]
    /\ UNCHANGED << equLog, lambda_store >>
    /\ UNCHANGED nonEquVars

\* SolveUnsteadyStokesSystem called on an initialised object: the rebuild
\* test on the static lambda_store, then the boundary solve of SolveLinearNS
\* with the matrix the object holds
SolveUnsteadyStokesSystemOf ==
    /\ Len(equLog) < MaxImplicitSolves
    /\ \E o \in Solvers, aii_Dt \in AiiDts :
         LET lambda == FDiv(RInt(1), aii_Dt)
             rebuild == NeedsRebuild(lambda_store, lambda)
             mat == IF rebuild THEN SetUpCoupledMatrix(lambda) ELSE equ[o]
         IN  /\ equ[o] # NoCoupledMatrix
             /\ equ' = [equ EXCEPT ![o] = mat]
             /\ lambda_store' = IF rebuild
                                  THEN StoreAfterRebuild(lambda_store, lambda)
                                ELSE lambda_store
             /\ equLog' = Append(equLog, [obj |-> o, lambda |-> lambda,
                                          store |-> lambda_store,
                                          rebuilt |-> rebuild, mat |-> mat])
    /\ UNCHANGED nonEquVars

EquNext ==
    \/ InitialiseSolver
    \/ SolveUnsteadyStokesSystemOf

InitEqu ==
    /\ AsmIdle /\ CondIdle /\ CacheIdle /\ BlockIdle
    /\ CgIdle /\ ParIdle /\ NsOff /\ LnsIdle
    /\ ReqIdle /\ FoldIdle /\ VecIdle /\ EquInit /\ OrdIdle /\ VwiIdle /\ PoolIdle

SpecEqu == InitEqu /\ [][EquNext]_vars

(***************************************************************************)
(* C25: at every boundary solve of the unsteady implicit solve the coupled *)
(* matrix of the solver object was built with the lambda = 1/aii_Dt of the *)
(* call, on the first call of an object as on the later ones, for every    *)
(* object and every order of the calls.                                    *)
(***************************************************************************)
C25_MatrixOfCurrentLambda ==
    \A i \in DOMAIN equLog : equLog[i].mat.lambda = equLog[i].lambda

\* the first solver has solved with lambda 1 and rebuilt its matrix; the
\* first call of the second solver, with the same lambda 1, finds
\* lambda_store = 1 and solves with the matrix of its initialisation
C25_Witness ==
    /\ Len(equLog) = 2
    /\ equLog[1] = [obj |-> 1, lambda |-> RInt(1), store |-> RInt(0),
                    rebuilt |-> TRUE, mat |-> SetUpCoupledMatrix(RInt(1))]
    /\ equLog[2].obj = 2
    /\ equLog[2].lambda = RInt(1)
    /\ equLog[2].rebuilt = FALSE
    /\ equLog[2].mat = SetUpCoupledMatrix(RInt(0))

(***************************************************************************)
(* GetBlockMatrix with a caller that handles the fatal error of the        *)
(* generator (the error is raised as an exception) and goes on calling.    *)
(***************************************************************************)
\* the caller catches the error of GenBlockMatrix and continues; it gives
\* up after MaxCalls failures of a key
CatchFatal ==
    /\ cachePc = "fatal"
    /\ \A k \in BlockKeys : genCount[k] < MaxCalls
    /\ cachePc' = "run"
    /\ UNCHANGED << blockMat, genCount, matrixManager, createCount, returned, thread >>
    /\ UNCHANGED nonCacheVars

CacheRetryNext ==
    \/ GetBlockMatrix
    \/ GetBlockMatrixFatal
    \/ GetLocMatrixCall
    \/ CatchFatal

SpecCacheRetry == InitCache /\ [][CacheRetryNext]_vars

(***************************************************************************)
(* C26: a generation that fails with the fatal error leaves the cache as   *)
(* it was: the cache holds no entry, and no empty entry, for a key whose   *)
(* generation fails, and no lookup with such a key returns a stored value  *)
(* (it runs the generation again, which fails again).                      *)
(***************************************************************************)
C26_FailedGenerationLeavesCache ==
    /\ \A k \in DOMAIN blockMat :
         k[1] \in BlockMatrixTypes /\ blockMat[k] # NullPtr
    /\ \A i \in DOMAIN returned :
         returned[i].op = "GetBlockMatrix" => returned[i].key[1] \in BlockMatrixTypes

\* the generation for a key of an undefined type has failed once, the
\* caller has gone on, and a later lookup with the same key has returned
C26_Witness ==
    /\ cachePc = "run"
    /\ \E k \in BlockKeys :
         /\ k[1] \notin BlockMatrixTypes
         /\ genCount[k] = 1
         /\ \E i \in DOMAIN returned :
              /\ returned[i].op = "GetBlockMatrix"
              /\ returned[i].key = k
              /\ returned[i].mat = NullPtr

(***************************************************************************)
(* GlobalLinSysPETSc::CalculateReordering run by every process of the      *)
(* communicator, followed by calls of v_SolveLinearSystem.  A process      *)
(* leaves a reduction once every process has entered it.                   *)
(***************************************************************************)
\* the global degrees of freedom of a process
GloDofs == {0, 1}

\* the universal ids the degrees of freedom can carry
UniversalIds == {3, 5, 8}

\* nHomDofs of process q
HomDofs(q) == ArrayLen(glo2uniMap[q]) - nDirDofs[q]

\* localCounts after vComm->AllReduce(localCounts, ReduceSum): entry n is
\* the sum of what the processes hold there, nHomDofs of rank n
ReducedCounts == [r \in Idx(NumProcs) |-> HomDofs(r + 1)]

RECURSIVE LocalOffsetOf(_, _)
\* localOffset[n] = localOffset[n-1] + localCounts[n-1]
LocalOffsetOf(counts, r) ==
    IF r = 0 THEN 0 ELSE LocalOffsetOf(counts, r - 1) + counts[r - 1]

\* Vmath::Vsum(nProc, localCounts, 1)
TotHomDofs(counts) == LocalOffsetOf(counts, NumProcs)

\* allUniIds of process q before the reduction: its own universal ids at
\* its offset, zero elsewhere
OwnUniIds(q, counts) ==
    [k \in Idx(TotHomDofs(counts)) |->
       LET nn == k - LocalOffsetOf(counts, q - 1)
       IN  IF nn >= 0 /\ nn < HomDofs(q) THEN glo2uniMap[q][nn + nDirDofs[q]] ELSE 0]

RECURSIVE SumOver(_, _, _)
SumOver(arrs, k, q) == IF q = 0 THEN 0 ELSE arrs[q][k] + SumOver(arrs, k, q - 1)

\* vComm->AllReduce(allUniIds, ReduceSum)
ReducedUniIds(counts) ==
    [k \in Idx(TotHomDofs(counts)) |->
       SumOver([q \in Procs |-> OwnUniIds(q, counts)], k, NumProcs)]

RECURSIVE InsertSorted(_, _)
InsertSorted(sq, x) ==
    IF sq = << >> THEN << x >>
    ELSE IF x <= Head(sq) THEN << x >> \o sq
    ELSE << Head(sq) >> \o InsertSorted(Tail(sq), x)

RECURSIVE SortFrom(_, _)
\* std::sort(allUniIds.begin(), allUniIds.end()), as a sequence
SortFrom(a, i) ==
    IF i >= ArrayLen(a) THEN << >> ELSE InsertSorted(SortFrom(a, i + 1), a[i])

\* mutant of Counted: an id met again is numbered again
CountedNever(reorder, uniId) == uniId \in DOMAIN reorder /\ uniId \notin DOMAIN reorder

\* uniIdReorder.count(allUniIds[n]) > 0
Counted(reorder, uniId) == uniId \in DOMAIN reorder

RECURSIVE UniIdReorder(_, _, _, _)
\* the loop that numbers the sorted ids: uniIdReorder[allUniIds[n]] = cnt++
UniIdReorder(sorted, k, cnt, reorder) ==
    IF k > Len(sorted) THEN reorder
    ELSE IF Counted(reorder, sorted[k])
         THEN UniIdReorder(sorted, k + 1, cnt, reorder)
         ELSE UniIdReorder(sorted, k + 1, cnt + 1, (sorted[k] :> cnt) @@ reorder)

OrdInit ==
    /\ glo2uniMap \in [Procs -> [GloDofs -> UniversalIds]]
    /\ nDirDofs \in [Procs -> {0, 1}]
    /\ ordPc = [q \in Procs |-> "start"]
    /\ localCounts = [q \in Procs |-> << >>]
    /\ allUniIds = [q \in Procs |-> << >>]
    /\ m_reorderedMap = [q \in Procs |-> << >>]
    /\ ordSolves = [q \in Procs |-> 0]

\* a process sets its own count and enters the first reduction
EnterCounts ==
    /\ \E q \in Procs :
         /\ ordPc[q] = "start"
         /\ ordPc' = [ordPc EXCEPT ![q] = "inCounts"]
         /\ localCounts' = [localCounts EXCEPT ![q] =
                              [r \in Idx(NumProcs) |-> IF r = q - 1 THEN HomDofs(q) ELSE 0]]
    /\ UNCHANGED << glo2uniMap, nDirDofs, allUniIds, m_reorderedMap, ordSolves >>
    /\ UNCHANGED nonOrdVars

\* a process leaves the first reduction, computes the offsets, copies its
\* universal ids and enters the second reduction
EnterIds ==
    /\ \A r \in Procs : ordPc[r] # "start"
    /\ \E q \in Procs :
         /\ ordPc[q] = "inCounts"
         /\ ordPc' = [ordPc EXCEPT ![q] = "inIds"]
         /\ localCounts' = [localCounts EXCEPT ![q] = ReducedCounts]
         /\ allUniIds' = [allUniIds EXCEPT ![q] = OwnUniIds(q, ReducedCounts)]
    /\ UNCHANGED << glo2uniMap, nDirDofs, m_reorderedMap, ordSolves >>
    /\ UNCHANGED nonOrdVars

\* a process leaves the second reduction, sorts the ids, numbers them and
\* fills m_reorderedMap
Reorder ==
    /\ \A r \in Procs : ordPc[r] \in {"inIds", "done"}
    /\ \E q \in Procs :
         LET sorted  == SortFrom(ReducedUniIds(localCounts[q]), 0)
             reorder == UniIdReorder(sorted, 1, 0, << >>)
         IN  /\ ordPc[q] = "inIds"
             /\ ordPc' = [ordPc EXCEPT ![q] = "done"]
             /\ allUniIds' = [allUniIds EXCEPT ![q] = sorted]
             /\ m_reorderedMap' = [m_reorderedMap EXCEPT ![q] =
                   [nn \in Idx(HomDofs(q)) |-> reorder[glo2uniMap[q][nn + nDirDofs[q]]]]]
    /\ UNCHANGED << glo2uniMap, nDirDofs, localCounts, ordSolves >>
    /\ UNCHANGED nonOrdVars

\* v_SolveLinearSystem reads m_reorderedMap (VecSetValues)
SolveWithMap ==
    /\ \E q \in Procs :
         /\ ordPc[q] = "done"
         /\ ordSolves[q] < MaxSolves
         /\ ordSolves' = [ordSolves EXCEPT ![q] = @ + 1]
    /\ UNCHANGED << glo2uniMap, nDirDofs, ordPc, localCounts, allUniIds, m_reorderedMap >>
    /\ UNCHANGED nonOrdVars

OrdNext ==
    \/ EnterCounts
    \/ EnterIds
    \/ Reorder
    \/ SolveWithMap

InitOrd ==
    /\ AsmIdle /\ CondIdle /\ CacheIdle /\ BlockIdle
    /\ CgIdle /\ ParIdle /\ NsIdle /\ LnsIdle
    /\ ReqIdle /\ FoldIdle /\ VecIdle /\ EquIdle /\ OrdInit /\ VwiIdle /\ PoolIdle

SpecOrd == InitOrd /\ [][OrdNext]_vars

\* the universal id of free degree of freedom nn of process q
UniIdOf(q, nn) == glo2uniMap[q][nn + nDirDofs[q]]

(***************************************************************************)
(* C27: once CalculateReordering has run on a process, its map gives every *)
(* free degree of freedom an index in 0..U-1, U the number of distinct     *)
(* universal ids of the free degrees of freedom of all processes; two free *)
(* degrees of freedom of the same or of different processes have the same  *)
(* index exactly when they have the same universal id, and the index grows *)
(* with the universal id.  The calls of v_SolveLinearSystem leave the map  *)
(* as the setup built it.                                                  *)
(***************************************************************************)
C27_ReorderingIsRank ==
    LET free == { qn \in Procs \X GloDofs : qn[2] < HomDofs(qn[1]) }
        U    == Cardinality({ UniIdOf(qn[1], qn[2]) : qn \in free })
        done == { qn \in free : ordPc[qn[1]] = "done" }
    IN  /\ \A qn \in done :
             /\ DOMAIN m_reorderedMap[qn[1]] = Idx(HomDofs(qn[1]))
             /\ m_reorderedMap[qn[1]][qn[2]] \in 0..(U - 1)
        /\ \A qn \in done, rm \in done :
             /\ (m_reorderedMap[qn[1]][qn[2]] = m_reorderedMap[rm[1]][rm[2]])
                  <=> (UniIdOf(qn[1], qn[2]) = UniIdOf(rm[1], rm[2]))
             /\ (m_reorderedMap[qn[1]][qn[2]] < m_reorderedMap[rm[1]][rm[2]])
                  <=> (UniIdOf(qn[1], qn[2]) < UniIdOf(rm[1], rm[2]))

\* every process has built its map and solved; one universal id is shared
\* by degrees of freedom of two processes, a larger one belongs to one
\* process only, and a Dirichlet degree of freedom is left out
C27_Witness ==
    /\ \A q \in Procs : ordPc[q] = "done" /\ ordSolves[q] > 0
    /\ nDirDofs[1] = 1 /\ nDirDofs[2] = 0
    /\ UniIdOf(1, 0) = 5 /\ UniIdOf(2, 0) = 5 /\ UniIdOf(2, 1) = 8
    /\ m_reorderedMap[1] = (0 :> 0)
    /\ m_reorderedMap[2] = (0 :> 0 @@ 1 :> 1)

(***************************************************************************)
(* VortexWaveInteractionSolver main, case eFixedWaveForcing: the while     *)
(* loop over the outer iterations with its inner loop.  The results of     *)
(* CheckGrowthConverged and CheckIfAtNeutralPoint are inputs of each pass. *)
(***************************************************************************)
\* the outer-iteration counts the model follows
MaxOuterCount == 4

\* the values of GetIterEnd() and of GetMaxOuterIterations()
MaxIterEnd == 2

VwiInit ==
    /\ vwiIn \in [IterStart : 0..1, IterEnd : 1..MaxIterEnd, MaxOuterIterations : 1..2]
    /\ vwiPc = "while"
    /\ vwiI = 0
    /\ nouter_iter = 0        \* int nouter_iter = vwi.GetNOuterIterations()
    /\ exit_iteration = FALSE
    /\ vwiReported = FALSE

\* while(exit_iteration == false), and the initialisation of the for loop
WhileTest ==
    /\ vwiPc = "while"
    /\ IF exit_iteration = FALSE
       THEN vwiPc' = "for" /\ vwiI' = vwiIn.IterStart
       ELSE vwiPc' = "left" /\ vwiI' = vwiI
    /\ UNCHANGED << nouter_iter, exit_iteration, vwiIn, vwiReported >>
    /\ UNCHANGED nonVwiVars

\* one test of the for loop, and its body when the test holds
InnerLoop ==
    /\ vwiPc = "for"
    /\ IF vwiI < vwiIn.IterEnd
       THEN \E converged \in BOOLEAN :      \* vwi.CheckGrowthConverged()
              IF converged
              THEN vwiPc' = "growth" /\ vwiI' = vwiI             \* break
              ELSE vwiPc' = "for" /\ vwiI' = vwiI + 1
       ELSE vwiPc' = "growth" /\ vwiI' = vwiI
    /\ UNCHANGED << nouter_iter, exit_iteration, vwiIn, vwiReported >>
    /\ UNCHANGED nonVwiVars

\* if(i == vwi.GetIterEnd()) { ... exit(1); }
GrowthCheck ==
    /\ vwiPc = "growth"
    /\ vwiPc' = IF vwiI = vwiIn.IterEnd THEN "exit1" ELSE "outer"
    /\ UNCHANGED << vwiI, nouter_iter, exit_iteration, vwiIn, vwiReported >>
    /\ UNCHANGED nonVwiVars

\* the statement the cap branch runs after writing to cerr, with the
\* comparison replaced by an assignment
AtCapAssigned(flag) == flag \/ ~flag

\* the statement the cap branch runs after writing to cerr:
\* exit_iteration == true; compares and leaves the flag as it is
AtCap(flag) == flag

\* the rest of the while body after the inner loop
OuterStep ==
    /\ vwiPc = "outer"
    /\ nouter_iter < MaxOuterCount
    /\ nouter_iter' = nouter_iter + 1       \* AppendEvlToFile(.., nouter_iter++)
    /\ \E atNeutral \in BOOLEAN :           \* vwi.CheckIfAtNeutralPoint()
         IF nouter_iter' >= vwiIn.MaxOuterIterations
         THEN /\ vwiReported' = TRUE
              /\ exit_iteration' = AtCap(atNeutral)
         ELSE /\ vwiReported' = vwiReported
              /\ exit_iteration' = atNeutral
    /\ vwiPc' = "while"
    /\ UNCHANGED << vwiI, vwiIn >>
    /\ UNCHANGED nonVwiVars

VwiNext ==
    \/ WhileTest
    \/ InnerLoop
    \/ GrowthCheck
    \/ OuterStep

InitVwi ==
    /\ AsmIdle /\ CondIdle /\ CacheIdle /\ BlockIdle
    /\ CgIdle /\ ParIdle /\ NsIdle /\ LnsIdle
    /\ ReqIdle /\ FoldIdle /\ VecIdle /\ EquIdle /\ OrdIdle /\ VwiInit /\ PoolIdle

SpecVwi == InitVwi /\ [][VwiNext]_vars

(***************************************************************************)
(* C28: in fixed-wave-forcing mode the while loop is left when the neutral *)
(* point is reached or, at the latest, once the outer-iteration count has  *)
(* reached GetMaxOuterIterations() and the failure to converge was         *)
(* reported: no pass of the loop starts with the count at the maximum.     *)
(***************************************************************************)
C28_OuterIterationCapped ==
    vwiPc \in {"for", "growth", "outer"} => nouter_iter < vwiIn.MaxOuterIterations

\* the failure was reported, the neutral point was not reached, and the
\* loop runs another pass with the count at the maximum
C28_Witness ==
    /\ vwiPc = "outer"
    /\ vwiReported
    /\ ~exit_iteration
    /\ nouter_iter = vwiIn.MaxOuterIterations

(***************************************************************************)
(* ThreadSpecificPool<ByteSize>: one pool object, reached through the      *)
(* MemPool singleton, used by several threads.  m_pool is a                *)
(* boost::thread_specific_ptr: every thread has its own value of the       *)
(* pointer, null until that thread calls reset.                            *)
(***************************************************************************)
NumPoolThreads == 3

MaxPoolCalls == 4

\* the chunks of one boost::pool, which grows when it has no free chunk
Chunks == 1..MaxPoolCalls

PoolThreads == 1..NumPoolThreads

\* the null value of the thread specific pointer
NullPool == [valid |-> FALSE, owner |-> 0, used |-> {}]

NoResult == [op |-> "none", kind |-> "none", owner |-> 0, chunk |-> 0]

\* the outcomes of a call through a null m_pool, or of free() on a chunk
\* of another pool: undefined behaviour
UndefinedOutcomes == {"crash", "wild"}

PoolInit ==
    /\ poolCtor = 0
    /\ m_pool = [t \in PoolThreads |-> NullPool]
    /\ poolHeld = {}
    /\ poolRes = [t \in PoolThreads |-> NoResult]
    /\ poolCalls = 0
    /\ poolPc = "run"

\* ThreadSpecificPool(): m_pool.reset(new boost::pool<>(ByteSize)) sets the
\* pointer of the constructing thread
ThreadSpecificPool(t) == [m_pool EXCEPT ![t] = [valid |-> TRUE, owner |-> t, used |-> {}]]

\* the first use of the singleton constructs the pool object in thread t
ConstructPool ==
    /\ poolPc = "run" /\ poolCtor = 0
    /\ \E t \in PoolThreads :
         /\ poolCtor' = t
         /\ m_pool' = ThreadSpecificPool(t)
    /\ UNCHANGED << poolHeld, poolRes, poolCalls >>
    /\ poolPc' = poolPc
    /\ UNCHANGED nonPoolVars

\* boost::pool::malloc of a pool with a free chunk
FreeChunk(pool) == CHOOSE c \in Chunks : c \notin pool.used /\
                     \A d \in Chunks : d \notin pool.used => c <= d

\* void* Allocate() { return m_pool->malloc(); } called by thread t
Allocate ==
    /\ poolPc = "run" /\ poolCtor # 0 /\ poolCalls < MaxPoolCalls
    /\ poolCalls' = poolCalls + 1
    /\ \E t \in PoolThreads :
         IF m_pool[t].valid
         THEN LET c == FreeChunk(m_pool[t])
                 IN  /\ m_pool' = [m_pool EXCEPT ![t].used = @ \cup {c}]
                     /\ poolHeld' = poolHeld \cup {<< m_pool[t].owner, c >>}
                     /\ poolRes' = [poolRes EXCEPT ![t] =
                          [op |-> "Allocate", kind |-> "block",
                           owner |-> m_pool[t].owner, chunk |-> c]]
                     /\ poolPc' = poolPc
         ELSE \E outcome \in UndefinedOutcomes :
                /\ poolRes' = [poolRes EXCEPT ![t] =
                     [op |-> "Allocate", kind |-> outcome, owner |-> 0, chunk |-> 0]]
                /\ poolPc' = IF outcome = "crash" THEN "crashed" ELSE poolPc
                /\ UNCHANGED << m_pool, poolHeld >>
    /\ UNCHANGED poolCtor
    /\ UNCHANGED nonPoolVars

\* void Deallocate(const void* p) { m_pool->free(p); } called by thread t
\* with a block handed out earlier
Deallocate ==
    /\ poolPc = "run" /\ poolCtor # 0 /\ poolCalls < MaxPoolCalls
    /\ poolCalls' = poolCalls + 1
    /\ \E t \in PoolThreads, b \in poolHeld :
         IF m_pool[t].valid /\ b[1] = m_pool[t].owner
         THEN /\ m_pool' = [m_pool EXCEPT ![t].used = @ \ {b[2]}]
              /\ poolHeld' = poolHeld \ {b}
              /\ poolRes' = [poolRes EXCEPT ![t] =
                   [op |-> "Deallocate", kind |-> "block", owner |-> b[1], chunk |-> b[2]]]
              /\ poolPc' = poolPc
         ELSE \E outcome \in UndefinedOutcomes :
                /\ poolRes' = [poolRes EXCEPT ![t] =
                     [op |-> "Deallocate", kind |-> outcome, owner |-> 0, chunk |-> 0]]
                /\ poolPc' = IF outcome = "crash" THEN "crashed" ELSE poolPc
                /\ UNCHANGED << m_pool, poolHeld >>
    /\ UNCHANGED poolCtor
    /\ UNCHANGED nonPoolVars

PoolNext ==
    \/ ConstructPool
    \/ Allocate
    \/ Deallocate

InitPool ==
    /\ AsmIdle /\ CondIdle /\ CacheIdle /\ BlockIdle
    /\ CgIdle /\ ParIdle /\ NsIdle /\ LnsIdle
    /\ ReqIdle /\ FoldIdle /\ VecIdle /\ EquIdle /\ OrdIdle /\ VwiIdle /\ PoolInit

SpecPool == InitPool /\ [][PoolNext]_vars

(***************************************************************************)
(* C29: the pool is thread specific: every thread that calls Allocate or   *)
(* Deallocate on the shared pool object, the constructing thread or any    *)
(* other, is served by a valid pool of its own; an allocation returns a    *)
(* block of the pool of the calling thread.                                *)
(***************************************************************************)
C29_EveryThreadHasItsPool ==
    \A t \in PoolThreads :
      poolRes[t].op # "none" =>
        /\ m_pool[t].valid /\ m_pool[t].owner = t
        /\ poolRes[t].kind = "block"
        /\ poolRes[t].op = "Allocate" => poolRes[t].owner = t

\* the constructing thread holds a block of its pool, and a thread that
\* did not construct the pool object called Allocate through its null
\* pointer
C29_Witness ==
    \E t \in PoolThreads, u \in PoolThreads :
      /\ t = poolCtor /\ u # poolCtor
      /\ poolRes[t].op = "Allocate" /\ poolRes[t].kind = "block" /\ poolRes[t].owner = t
      /\ poolRes[u].op = "Allocate" /\ poolRes[u].kind \in UndefinedOutcomes
      /\ ~m_pool[u].valid

\* the condensation loops of the UseLocRegionsMatrix branch applied to the
\* local matrix of element m, factor times the standard matrix
DirectCondensation(m) ==
    LET blk == BlocksOf(GetLocMatrix(m))
    IN  Condense(blk.A, blk.B, blk.C, blk.D)

====
